---- MODULE Spec2Model ----
(***************************************************************************)
(* EzYOLO: the annotation store (models/database.py), the format importers *)
(* (core/annotation_importer.py), the auto-labeler (core/auto_labeler.py)  *)
(* and the annotation page with its canvas (gui/pages/annotate_page.py).   *)
(*                                                                         *)
(* Image-space lengths are integers counted in units of 1/SubPixel pixel,  *)
(* so that the fractional coordinates the canvas produces at the viewport  *)
(* scales used here are exact.  View-space (widget) coordinates are whole  *)
(* pixels, as QPoint holds them.                                           *)
(***************************************************************************)
EXTENDS Integers, Sequences, FiniteSets, TLC

(* ------------------------------ bounds -------------------------------- *)
NumImages == 2
MaxAnnId == 2
MaxClassId == 2
MaxClasses == 2
MaxHist == 1

(* ------------------------- program constants -------------------------- *)
MaxScale == 5
MinRectSize == 5
handle_size == 8
HistoryLimit == 50

SubPixel == MaxScale
Px(n) == n * SubPixel

ImageIds == 1 .. NumImages
None == 0

(* Every image of the project has the same size here. *)
ImgW == Px(24)
ImgH == Px(20)

Max(a, b) == IF a >= b THEN a ELSE b
Min(a, b) == IF a <= b THEN a ELSE b
Abs(a) == IF a < 0 THEN 0 - a ELSE a

(* int(): truncation toward zero of a value in 1/SubPixel units, to whole pixels *)
IntPx(v) == IF v >= 0 THEN (v \div SubPixel) * SubPixel
            ELSE 0 - (((0 - v) \div SubPixel) * SubPixel)

(* --------------------------- the database ----------------------------- *)
(* A database value: the annotations table in rowid order, the status     *)
(* column of the images table, sqlite's AUTOINCREMENT sequence of the      *)
(* annotations table, and the classes column of the project's row.         *)

Bbox(x, y, w, h) == [x |-> x, y |-> y, width |-> w, height |-> h]

get_image_annotations(d, image_id) ==
  SelectSeq(d.annotations, LAMBDA a : a.image_id = image_id)

add_annotation(d, image_id, class_id, class_name, annotation_type, data) ==
  [d EXCEPT
     !.annotations = Append(@, [id |-> d.seq + 1, image_id |-> image_id,
                                class_id |-> class_id, class_name |-> class_name,
                                type |-> annotation_type, data |-> data]),
     !.status = [@ EXCEPT ![image_id] = "annotated"],
     !.seq = @ + 1]

delete_image_annotations(d, image_id) ==
  [d EXCEPT !.annotations = SelectSeq(@, LAMBDA a : a.image_id # image_id)]

delete_annotation(d, annotation_id) ==
  [d EXCEPT !.annotations = SelectSeq(@, LAMBDA a : a.id # annotation_id)]

update_image_status(d, image_id, status) ==
  [d EXCEPT !.status = [@ EXCEPT ![image_id] = status]]

update_project(d, cls) == [d EXCEPT !.classes = cls]

update_annotation_data(d, annotation_id, data) ==
  [d EXCEPT !.annotations =
     [i \in 1 .. Len(@) |-> IF @[i].id = annotation_id
                             THEN [@[i] EXCEPT !.data = data] ELSE @[i]]]

update_annotation_class(d, annotation_id, class_id) ==
  [d EXCEPT !.annotations =
     [i \in 1 .. Len(@) |-> IF @[i].id = annotation_id
                             THEN [@[i] EXCEPT !.class_id = class_id] ELSE @[i]]]

(* ----------------------- the project's classes ------------------------ *)
ClassIds(cls) == {cls[i].id : i \in 1 .. Len(cls)}

ClassById(cls, class_id) ==
  LET hits == {i \in 1 .. Len(cls) : cls[i].id = class_id}
  IN  IF hits = {} THEN None ELSE CHOOSE i \in hits : \A j \in hits : i <= j

(* AnnotationImporter.__init__: class_map = {name: id}; a later entry of   *)
(* the same name wins, as in a dict comprehension.                         *)
class_map_get(cls, name, default) ==
  LET hits == {i \in 1 .. Len(cls) : cls[i].name = name}
  IN  IF hits = {} THEN default
      ELSE cls[CHOOSE i \in hits : \A j \in hits : i >= j].id

(* {cls['id']: cls['name'] for cls in classes}[class_id]: the last entry   *)
(* with that id.                                                           *)
class_name_of(cls, class_id) ==
  LET hits == {i \in 1 .. Len(cls) : cls[i].id = class_id}
  IN  cls[CHOOSE i \in hits : \A j \in hits : i >= j].name

AutoName(class_id) == "class_" \o ToString(class_id)

_get_class_name_by_id(cls, class_id) ==
  IF ClassById(cls, class_id) = None THEN AutoName(class_id)
  ELSE cls[ClassById(cls, class_id)].name

(* --------------------------- the importers ---------------------------- *)
(* An importer that never skips an image, whatever it already holds.       *)
NeverSkip(existing, overwrite) == FALSE

(* The overwrite policy the three importers share.                         *)
SkipExisting(existing, overwrite) == existing # <<>> /\ ~overwrite

DeleteExisting(existing, overwrite) == existing # <<>> /\ overwrite

(* An importer's running result: the database and the two counters.        *)
Acc(d) == [d |-> d, imported |-> 0, skipped |-> 0]
Skip(acc) == [acc EXCEPT !.skipped = @ + 1]

RECURSIVE AddParsed(_, _, _)
AddParsed(d, image_id, anns) ==
  IF anns = <<>> THEN d
  ELSE AddParsed(add_annotation(d, image_id, Head(anns).class_id,
                                Head(anns).class_name, "bbox", Head(anns).data),
                 image_id, Tail(anns))

(* _parse_yolo_file on a detect project, for a file whose lines decode to  *)
(* the objects objs: each gets the class id of its line and the name the   *)
(* project has for that id.                                                 *)
_parse_yolo_file(cls, objs) ==
  [i \in 1 .. Len(objs) |->
     [class_id |-> objs[i].class_id,
      class_name |-> _get_class_name_by_id(cls, objs[i].class_id),
      data |-> objs[i].data]]

(* One *.txt file of the labels folder; image = None when no image file or *)
(* no image record corresponds to it.                                       *)
YoloFile(acc, cls, file, overwrite) ==
  IF file.image = None THEN Skip(acc)
  ELSE LET existing == get_image_annotations(acc.d, file.image)
       IN  IF SkipExisting(existing, overwrite) THEN Skip(acc)
           ELSE LET d1 == IF DeleteExisting(existing, overwrite)
                          THEN delete_image_annotations(acc.d, file.image)
                          ELSE acc.d
                    parsed == _parse_yolo_file(cls, file.objs)
                IN  [acc EXCEPT !.d = AddParsed(d1, file.image, parsed),
                                !.imported = @ + Len(parsed)]

RECURSIVE YoloLoop(_, _, _, _)
YoloLoop(acc, cls, files, overwrite) ==
  IF files = <<>> THEN acc
  ELSE YoloLoop(YoloFile(acc, cls, Head(files), overwrite), cls, Tail(files), overwrite)

import_yolo_annotations(d, cls, files, overwrite) ==
  YoloLoop(Acc(d), cls, files, overwrite)

(* One entry of a COCO file's annotations[].  coco.images maps an image id *)
(* to a file name (the project image it names, or None for a file the      *)
(* project does not hold); coco.categories maps a category id to a name;   *)
(* bbox is the list [x, y, width, height].                                 *)
CocoAnn(acc, coco, ann, overwrite) ==
  IF ann.image_id \notin DOMAIN coco.images THEN Skip(acc)
  ELSE LET image == coco.images[ann.image_id]
       IN  IF image = None THEN Skip(acc)
           ELSE LET existing == get_image_annotations(acc.d, image)
                IN  IF SkipExisting(existing, overwrite) THEN Skip(acc)
                    ELSE LET d1 == IF DeleteExisting(existing, overwrite)
                                   THEN delete_image_annotations(acc.d, image)
                                   ELSE acc.d
                         IN  IF ann.category_id \notin DOMAIN coco.categories
                             THEN [Skip(acc) EXCEPT !.d = d1]
                             ELSE LET name == coco.categories[ann.category_id]
                                      d2 == IF ann.has_bbox
                                            THEN add_annotation(d1, image, ann.category_id,
                                                   name, "bbox",
                                                   Bbox(ann.bbox[1], ann.bbox[2],
                                                        ann.bbox[3], ann.bbox[4]))
                                            ELSE d1
                                      d3 == IF ann.has_segmentation
                                            THEN add_annotation(d2, image, ann.category_id,
                                                                name, "polygon",
                                                                [points |-> ann.segmentation])
                                            ELSE d2
                                  IN  [acc EXCEPT
                                         !.d = d3,
                                         !.imported = @ + (IF ann.has_bbox THEN 1 ELSE 0)
                                                        + (IF ann.has_segmentation THEN 1 ELSE 0)]

RECURSIVE CocoLoop(_, _, _, _)
CocoLoop(acc, coco, anns, overwrite) ==
  IF anns = <<>> THEN acc
  ELSE CocoLoop(CocoAnn(acc, coco, Head(anns), overwrite), coco, Tail(anns), overwrite)

import_coco_annotations(d, coco, overwrite) ==
  CocoLoop(Acc(d), coco, coco.annotations, overwrite)

(* One <object> of a VOC file: name = "" when <name> is missing; box is    *)
(* "none" when <bndbox> is missing, "bad" when a corner is not an integer,  *)
(* "ok" when bndbox holds the four corners.                                 *)
RECURSIVE VocObjects(_, _, _, _)
VocObjects(acc, cls, image, objs) ==
  IF objs = <<>> THEN acc
  ELSE LET obj == Head(objs)
           next == IF obj.name = "" THEN acc
                   ELSE IF obj.box = "none" THEN acc
                   ELSE IF obj.box = "bad" THEN Skip(acc)
                   ELSE [acc EXCEPT
                           !.d = add_annotation(acc.d, image,
                                   class_map_get(cls, obj.name, 0), obj.name, "bbox",
                                   Bbox(obj.bndbox.xmin, obj.bndbox.ymin,
                                        obj.bndbox.xmax - obj.bndbox.xmin,
                                        obj.bndbox.ymax - obj.bndbox.ymin)),
                           !.imported = @ + 1]
       IN  VocObjects(next, cls, image, Tail(objs))

(* One *.xml file; image = None when <filename> is missing or names no     *)
(* image of the project.                                                    *)
VocFile(acc, cls, file, overwrite) ==
  IF file.image = None THEN Skip(acc)
  ELSE LET existing == get_image_annotations(acc.d, file.image)
       IN  IF SkipExisting(existing, overwrite) THEN Skip(acc)
           ELSE LET d1 == IF DeleteExisting(existing, overwrite)
                          THEN delete_image_annotations(acc.d, file.image)
                          ELSE acc.d
                IN  VocObjects([acc EXCEPT !.d = d1], cls, file.image, file.objs)

RECURSIVE VocLoop(_, _, _, _)
VocLoop(acc, cls, files, overwrite) ==
  IF files = <<>> THEN acc
  ELSE VocLoop(VocFile(acc, cls, Head(files), overwrite), cls, Tail(files), overwrite)

import_voc_annotations(d, cls, files, overwrite) ==
  VocLoop(Acc(d), cls, files, overwrite)

(* ------------------------------ state --------------------------------- *)
VARIABLES
  db,                      \* models.database.db
  current_page,            \* MainWindow.content_stack's index: 0 import, 1 annotate
  classes,                 \* AnnotatePage.classes
  class_list,              \* the ids the class list widget shows, row by row
  current_image_id,        \* AnnotatePage.current_image_id (None = 0)
  annotations,             \* AnnotatePage.annotations, the list the canvas shares
  selected_annotation_id,  \* AnnotationCanvas.selected_annotation_id
  current_class_id,        \* AnnotationCanvas.current_class_id
  history,                 \* AnnotatePage.history
  history_index,           \* AnnotatePage.history_index
  lastOp,                  \* the import, class deletion or canvas event that ran
                           \* last, with its inputs and result
  current_image,           \* AnnotationCanvas.current_image is not None
  image_scale,             \* AnnotationCanvas.image_scale, the fraction n/d
  image_offset,            \* AnnotationCanvas.image_offset, a view point
  widget_rect,             \* AnnotationCanvas.rect(), the size of the widget
  current_tool,            \* AnnotationCanvas.current_tool
  drawing, start_point, current_point,
  dragging, drag_start, drag_start_annotation,
  resizing, resize_handle, resize_start_rect,
  panning, pan_start, pan_start_offset,
  left_button_down,        \* the left mouse button is held over the canvas
  polygon_points,          \* AnnotationCanvas.polygon_points, view points
  worker,                  \* BatchLabelingThread: where its run() stands
  exported                 \* the annotations.json of the last COCO export

pageVars == <<class_list, current_image_id, annotations, selected_annotation_id,
              current_class_id, history, history_index>>
viewVars == <<current_image, image_scale, image_offset, widget_rect>>
gestureVars == <<drawing, start_point, current_point, dragging, drag_start,
                 drag_start_annotation, resizing, resize_handle, resize_start_rect,
                 panning, pan_start, pan_start_offset, left_button_down,
                 polygon_points>>
canvasVars == <<viewVars, current_tool, gestureVars>>
otherVars == <<canvasVars, worker, exported>>
vars == <<db, current_page, classes, pageVars, lastOp, canvasVars, worker, exported>>

(* The handlers of the annotation page run while it is the page shown.      *)
AnnotatePageShown == current_page = 1 /\ UNCHANGED current_page

NoPoint == [none |-> TRUE]
NoData == [none |-> TRUE]
Point(x, y) == [x |-> x, y |-> y]
Handles == <<"top_left", "top_right", "bottom_left", "bottom_right">>

(* ---------------------------- the viewport ----------------------------- *)
TruncDiv(a, b) == IF a >= 0 THEN a \div b ELSE 0 - ((0 - a) \div b)

(* image_to_widget, one coordinate: int(v * scale + offset)                 *)
ToWidget(v, scale, o) ==
  TruncDiv(v * scale.n + o * scale.d * SubPixel, scale.d * SubPixel)

(* widget_to_image, one coordinate: (p - offset) / scale; the division is   *)
(* exact for the scales used (scale.n divides SubPixel).                    *)
ToImage(p, scale, o) == ((p - o) * scale.d * SubPixel) \div scale.n

image_to_widget(x, y, scale, off) ==
  Point(ToWidget(x, scale, off.x), ToWidget(y, scale, off.y))

widget_to_image(pos, scale, off) ==
  Point(ToImage(pos.x, scale, off.x), ToImage(pos.y, scale, off.y))

(* The canvas widget's rect() as the layout first sets it.                  *)
WidgetRect == [width |-> 64, height |-> 60]

RECURSIVE GCD(_, _)
GCD(a, b) == IF b = 0 THEN a ELSE GCD(b, a % b)

Frac(n, d) == [n |-> n \div GCD(n, d), d |-> d \div GCD(n, d)]
FracLeq(p, q) == p.n * q.d <= q.n * p.d
FracMin(p, q) == IF FracLeq(p, q) THEN p ELSE q

(* reset_view: the scale that fits the image in the widget, at most 1.0,    *)
(* and the offset that centres it.                                          *)
reset_view_scale(rect) ==
  FracMin(FracMin(Frac((rect.width - 40) * SubPixel, ImgW),
                  Frac((rect.height - 40) * SubPixel, ImgH)),
          Frac(1, 1))

reset_view_offset(rect, scale) ==
  Point(TruncDiv(rect.width * SubPixel * scale.d - ImgW * scale.n, 2 * SubPixel * scale.d),
        TruncDiv(rect.height * SubPixel * scale.d - ImgH * scale.n, 2 * SubPixel * scale.d))

(* AnnotationCanvas.load_image, for a file cv2 can read.                    *)
canvas_load_image ==
  /\ current_image' = TRUE
  /\ image_scale' = reset_view_scale(widget_rect)
  /\ image_offset' = reset_view_offset(widget_rect, reset_view_scale(widget_rect))
  /\ UNCHANGED widget_rect

(* --------------------------- hit testing ------------------------------- *)
(* One edge p1 -> p2 of the ray casting loop: does it toggle `inside`?      *)
EdgeToggles(x, y, p1, p2) ==
  /\ y > Min(p1.y, p2.y)
  /\ y <= Max(p1.y, p2.y)
  /\ x <= Max(p1.x, p2.x)
  /\ \/ p1.x = p2.x
     \/ IF p2.y > p1.y
        THEN (x - p1.x) * (p2.y - p1.y) <= (y - p1.y) * (p2.x - p1.x)
        ELSE (x - p1.x) * (p2.y - p1.y) >= (y - p1.y) * (p2.x - p1.x)

point_in_polygon(x, y, polygon) ==
  LET n == Len(polygon)
      toggles == {i \in 1 .. n : EdgeToggles(x, y, polygon[i], polygon[(i % n) + 1])}
  IN  Cardinality(toggles) % 2 = 1

is_point_in_annotation(pos, annotation, scale, off) ==
  IF annotation.type = "bbox"
  THEN LET data == annotation.data
           top_left == image_to_widget(data.x, data.y, scale, off)
           bottom_right == image_to_widget(data.x + data.width, data.y + data.height,
                                           scale, off)
       IN  /\ top_left.x <= pos.x /\ pos.x <= bottom_right.x
           /\ top_left.y <= pos.y /\ pos.y <= bottom_right.y
  ELSE IF annotation.type = "polygon"
  THEN LET points == annotation.data.points
           widget_points == [i \in 1 .. Len(points) |->
                               image_to_widget(points[i].x, points[i].y, scale, off)]
       IN  IF Len(points) < 3 THEN FALSE
           ELSE point_in_polygon(pos.x, pos.y, widget_points)
  ELSE FALSE

(* get_annotation_at: the index in anns of the last annotation holding pos, *)
(* or None.                                                                 *)
(* The first annotation of the list that holds pos.                         *)
FirstAnnotationAt(pos, anns, scale, off) ==
  LET hits == {i \in 1 .. Len(anns) : is_point_in_annotation(pos, anns[i], scale, off)}
  IN  IF hits = {} THEN None ELSE CHOOSE i \in hits : \A j \in hits : i <= j

get_annotation_at(pos, anns, scale, off) ==
  LET hits == {i \in 1 .. Len(anns) : is_point_in_annotation(pos, anns[i], scale, off)}
  IN  IF hits = {} THEN None ELSE CHOOSE i \in hits : \A j \in hits : i >= j

AnnIndex(anns, annotation_id) ==
  LET hits == {i \in 1 .. Len(anns) : anns[i].id = annotation_id}
  IN  IF hits = {} THEN None ELSE CHOOSE i \in hits : \A j \in hits : i <= j

(* QRect(x, y, w, h).contains(pos)                                          *)
RectContains(x, y, w, h, pos) ==
  x <= pos.x /\ pos.x <= x + w - 1 /\ y <= pos.y /\ pos.y <= y + h - 1

(* get_resize_handle_at: the name of the first handle of the selected bbox  *)
(* that holds pos, or "none".                                               *)
get_resize_handle_at(pos, anns, selected, scale, off) ==
  LET i == AnnIndex(anns, selected)
  IN  IF selected = None \/ i = None THEN "none"
      ELSE IF anns[i].type # "bbox" THEN "none"
      ELSE LET data == anns[i].data
               tl == image_to_widget(data.x, data.y, scale, off)
               br == image_to_widget(data.x + data.width, data.y + data.height, scale, off)
               corner == [top_left |-> Point(tl.x, tl.y), top_right |-> Point(br.x, tl.y),
                          bottom_left |-> Point(tl.x, br.y),
                          bottom_right |-> Point(br.x, br.y)]
               hit(h) == RectContains(corner[h].x - handle_size, corner[h].y - handle_size,
                                      handle_size * 2, handle_size * 2, pos)
               hits == {k \in 1 .. Len(Handles) : hit(Handles[k])}
           IN  IF hits = {} THEN "none"
               ELSE Handles[CHOOSE k \in hits : \A j \in hits : k <= j]

Op(name) == [op |-> name]
(* lastOp after a handler whose inputs and result no property refers to.    *)
OtherOp == Op("other")

(* ------------------------- the annotation page ------------------------- *)
(* add_history: the new history and history_index.                          *)
add_history(h, idx, action, data) ==
  LET h1 == Append(SubSeq(h, 1, idx + 1), [action |-> action, data |-> data])
  IN  IF Len(h1) > HistoryLimit
      THEN [history |-> Tail(h1), history_index |-> Len(h1) - 2]
      ELSE [history |-> h1, history_index |-> Len(h1) - 1]

(* A reload of the annotations that keeps the selection.                    *)
ReloadKeepsSelection(d) ==
  IF current_image_id = None
  THEN UNCHANGED <<annotations, selected_annotation_id>>
  ELSE /\ annotations' = get_image_annotations(d, current_image_id)
       /\ UNCHANGED selected_annotation_id

(* load_annotations followed by canvas.set_annotations, on database d.      *)
LoadAnnotations(d) ==
  IF current_image_id = None
  THEN UNCHANGED <<annotations, selected_annotation_id>>
  ELSE /\ annotations' = get_image_annotations(d, current_image_id)
       /\ selected_annotation_id' = None

(* update_class_list: the widget is refilled and its first row selected.    *)
UpdateClassList(cls) ==
  /\ class_list' = [i \in 1 .. Len(cls) |-> cls[i].id]
  /\ current_class_id' = IF Len(cls) > 0 THEN cls[1].id ELSE current_class_id

PageClassName(cls, class_id) ==
  IF class_id < Len(cls) THEN cls[class_id + 1].name ELSE "unknown"

(* AnnotatePage.load_image, for an image whose file the canvas can load.    *)
SelectImage(i) ==
  /\ AnnotatePageShown
  /\ current_image_id' = i
  /\ annotations' = get_image_annotations(db, i)
  /\ selected_annotation_id' = None
  /\ canvas_load_image
  /\ lastOp' = Op("load_image")
  /\ UNCHANGED <<db, classes, class_list, current_class_id, history, history_index,
                 current_tool, gestureVars, worker, exported>>

(* on_class_selected: the user picks row r of the class list.               *)
OnClassSelected(r) ==
  /\ AnnotatePageShown
  /\ r \in 1 .. Len(class_list)
  /\ current_class_id' = class_list[r]
  /\ lastOp' = OtherOp
  /\ UNCHANGED <<db, classes, class_list, current_image_id, annotations,
                 selected_annotation_id, history, history_index, otherVars>>

(* on_annotation_created, for the annotation the canvas emits.              *)
on_annotation_created(annotation) ==
  /\ current_image_id # None
  /\ LET class_id == annotation.class_id
         d1 == add_annotation(db, current_image_id, class_id,
                              PageClassName(classes, class_id),
                              annotation.type, annotation.data)
         h  == add_history(history, history_index, "create",
                           [annotation_id |-> d1.seq])
         d2 == update_image_status(d1, current_image_id, "annotated")
     IN  /\ db' = d2
         /\ history' = h.history
         /\ history_index' = h.history_index
         /\ LoadAnnotations(d2)
  /\ UNCHANGED <<classes, class_list, current_image_id, current_class_id>>

(* A drag or resize that ends in the history alone.                         *)
ModifiedNotStored(annotation_id, data) ==
  IF \E i \in 1 .. Len(annotations) : annotations[i].id = annotation_id
  THEN LET h == add_history(history, history_index, "modify",
                            [annotation_id |-> annotation_id, old_data |-> data])
       IN  /\ db' = db
           /\ history' = h.history
           /\ history_index' = h.history_index
  ELSE UNCHANGED <<db, history, history_index>>

(* on_annotation_modified: a drag or resize ended on annotation_id.         *)
on_annotation_modified(annotation_id, data) ==
  IF \E i \in 1 .. Len(annotations) : annotations[i].id = annotation_id
  THEN LET h == add_history(history, history_index, "modify",
                            [annotation_id |-> annotation_id, old_data |-> data])
       IN  /\ db' = update_annotation_data(db, annotation_id, data)
           /\ history' = h.history
           /\ history_index' = h.history_index
  ELSE UNCHANGED <<db, history, history_index>>

(* on_annotation_deleted: the Delete key with annotation_id selected.       *)
on_annotation_deleted(annotation_id) ==
  LET hits == {i \in 1 .. Len(annotations) : annotations[i].id = annotation_id}
      h  == IF hits = {} THEN [history |-> history, history_index |-> history_index]
            ELSE add_history(history, history_index, "delete",
                             annotations[CHOOSE i \in hits : TRUE])
      d1 == delete_annotation(db, annotation_id)
      d2 == IF current_image_id # None /\ get_image_annotations(d1, current_image_id) = <<>>
            THEN update_image_status(d1, current_image_id, "pending")
            ELSE d1
  IN  /\ db' = d2
      /\ history' = h.history
      /\ history_index' = h.history_index
      /\ annotations' = IF current_image_id = None THEN annotations
                        ELSE get_image_annotations(d1, current_image_id)
      /\ selected_annotation_id' = None
      /\ UNCHANGED <<classes, class_list, current_image_id, current_class_id>>


(* The Delete key, on the canvas or on the page.                            *)
DeleteKey ==
  /\ AnnotatePageShown
  /\ selected_annotation_id # None
  /\ on_annotation_deleted(selected_annotation_id)
  /\ lastOp' = OtherOp
  /\ UNCHANGED otherVars

(* undo (Ctrl+Z)                                                            *)
Undo ==
  /\ AnnotatePageShown
  /\ history_index >= 0
  /\ LET record == history[history_index + 1]
         d1 == IF record.action = "create"
               THEN delete_annotation(db, record.data.annotation_id)
               ELSE IF record.action = "delete"
               THEN add_annotation(db, record.data.image_id, record.data.class_id,
                                   record.data.class_name, record.data.type,
                                   record.data.data)
               ELSE db
     IN  /\ record.action = "delete" => db.seq < MaxAnnId
         /\ db' = d1
         /\ LoadAnnotations(d1)
  /\ history_index' = history_index - 1
  /\ lastOp' = OtherOp
  /\ UNCHANGED <<classes, class_list, current_image_id, current_class_id, history,
                 otherVars>>

(* add_class: the new class gets the id len(classes) and is selected.       *)
add_class(name) ==
  /\ AnnotatePageShown
  /\ Len(classes) < MaxClasses
  /\ LET cls == Append(classes, [id |-> Len(classes), name |-> name])
     IN  /\ classes' = cls
         /\ db' = update_project(db, cls)
         /\ class_list' = [i \in 1 .. Len(cls) |-> cls[i].id]
         /\ current_class_id' = cls[Len(cls)].id
  /\ lastOp' = OtherOp
  /\ UNCHANGED <<current_image_id, annotations, selected_annotation_id, history,
                 history_index, otherVars>>

RECURSIVE DeleteAnnotationsOfClass(_, _, _)
DeleteAnnotationsOfClass(d, anns, class_id) ==
  IF anns = <<>> THEN d
  ELSE DeleteAnnotationsOfClass(
         IF Head(anns).class_id = class_id THEN delete_annotation(d, Head(anns).id) ELSE d,
         Tail(anns), class_id)

(* The class list after delete_class: the class is removed, the rest       *)
(* renumbered by position.                                                  *)
Renumber(cls) == [i \in 1 .. Len(cls) |-> [cls[i] EXCEPT !.id = i - 1]]

RemoveClass(cls, class_id) ==
  Renumber(SelectSeq(cls, LAMBDA c : c.id # class_id))

(* delete_class on row r of the class list, confirmed.                      *)
delete_class(r) ==
  /\ AnnotatePageShown
  /\ r \in 1 .. Len(class_list)
  /\ ClassById(classes, class_list[r]) # None
  /\ LET class_id == class_list[r]
         d1 == DeleteAnnotationsOfClass(db, annotations, class_id)
         cls == RemoveClass(classes, class_id)
     IN  /\ db' = update_project(d1, cls)
         /\ classes' = cls
         /\ UpdateClassList(cls)
         /\ LoadAnnotations(d1)
         /\ lastOp' = [op |-> "delete_class", class_id |-> class_id]
  /\ UNCHANGED <<current_image_id, history, history_index, otherVars>>

(* ----------------------- batch region processing ----------------------- *)
(* is_point_in_annotation_data: the point is in whole image pixels.         *)
is_point_in_annotation_data(px, py, data, ann_type) ==
  IF ann_type = "bbox"
  THEN /\ data.x <= Px(px) /\ Px(px) <= data.x + data.width
       /\ data.y <= Px(py) /\ Px(py) <= data.y + data.height
  ELSE IF ann_type = "polygon"
  THEN IF Len(data.points) < 3 THEN FALSE
       ELSE point_in_polygon(Px(px), Px(py), data.points)
  ELSE FALSE

(* An annotation that holds every selected point.                           *)
CoversAllPoints(points, annotation) ==
  \A k \in 1 .. Len(points) :
    is_point_in_annotation_data(points[k].x, points[k].y, annotation.data, annotation.type)

covers_point(points, annotation) ==
  \E k \in 1 .. Len(points) :
    is_point_in_annotation_data(points[k].x, points[k].y, annotation.data, annotation.type)

BatchAnnotation(acc, config, annotation) ==
  IF ~covers_point(config.points, annotation) THEN acc
  ELSE IF config.operation = "delete"
  THEN IF annotation.class_id \in config.target_classes
       THEN [acc EXCEPT !.d = delete_annotation(@, annotation.id), !.modified = @ + 1]
       ELSE acc
  ELSE IF annotation.class_id \in config.source_classes
       THEN [acc EXCEPT !.d = update_annotation_class(@, annotation.id, config.target_class),
                        !.modified = @ + 1]
       ELSE acc

RECURSIVE BatchAnnotations(_, _, _)
BatchAnnotations(acc, config, anns) ==
  IF anns = <<>> THEN acc
  ELSE BatchAnnotations(BatchAnnotation(acc, config, Head(anns)), config, Tail(anns))

(* The images of the project in list order are 1 .. NumImages; image_ids is *)
(* the part of images[start_idx : end_idx + 1] still to process.            *)
RECURSIVE BatchImages(_, _, _)
BatchImages(acc, config, image_ids) ==
  IF image_ids = <<>> THEN acc
  ELSE LET anns == get_image_annotations(acc.d, Head(image_ids))
           next == IF anns = <<>> THEN acc
                   ELSE [BatchAnnotations(acc, config, anns) EXCEPT !.processed = @ + 1]
       IN  BatchImages(next, config, Tail(image_ids))

(* execute_batch_process, run to its end without cancellation.              *)
execute_batch_process(config) ==
  LET image_ids == [k \in 1 .. (config.end_idx - config.start_idx + 1) |->
                      config.start_idx + k]
      res == BatchImages([d |-> db, processed |-> 0, modified |-> 0], config, image_ids)
  IN  /\ AnnotatePageShown
      /\ db' = res.d
      /\ LoadAnnotations(res.d)
      /\ lastOp' = [op |-> "batch_process", config |-> config]
      /\ UNCHANGED <<classes, class_list, current_image_id, current_class_id, history,
                     history_index, otherVars>>

(* ------------------------------ auto-label ----------------------------- *)
(* run_single_inference, its loop over the detector's annotations: a class  *)
(* id the project lacks is appended to the classes with the name class_<id>.*)
RECURSIVE IngestDetections(_, _, _)
IngestDetections(st, image_id, dets) ==
  IF dets = <<>> THEN st
  ELSE LET det == Head(dets)
           known == ClassById(st.classes, det.class_id) # None
           cls == IF known THEN st.classes
                  ELSE Append(st.classes, [id |-> det.class_id,
                                           name |-> AutoName(det.class_id)])
           name == IF known THEN st.classes[ClassById(st.classes, det.class_id)].name
                   ELSE AutoName(det.class_id)
           d1 == IF known THEN st.d ELSE update_project(st.d, cls)
       IN  IngestDetections([d |-> add_annotation(d1, image_id, det.class_id, name,
                                                  "bbox", det.data),
                             classes |-> cls],
                            image_id, Tail(dets))

run_single_inference(dets, overwrite_labels) ==
  /\ AnnotatePageShown
  /\ current_image_id # None
  /\ LET d0 == IF overwrite_labels THEN delete_image_annotations(db, current_image_id)
               ELSE db
         st == IngestDetections([d |-> d0, classes |-> classes], current_image_id, dets)
     IN  /\ db.seq < MaxAnnId
         /\ Len(st.classes) <= MaxClasses
         /\ db' = st.d
         /\ classes' = st.classes
         /\ IF dets # <<>> \/ overwrite_labels
            THEN LoadAnnotations(st.d)
            ELSE UNCHANGED <<annotations, selected_annotation_id>>
  /\ lastOp' = OtherOp
  /\ UNCHANGED <<class_list, current_image_id, current_class_id, history, history_index,
                 otherVars>>

(* AutoLabeler.save_annotations                                             *)
RECURSIVE SaveLoop(_, _, _)
SaveLoop(d, image_id, anns) ==
  IF anns = <<>> THEN d
  ELSE SaveLoop(add_annotation(d, image_id, Head(anns).class_id,
                               AutoName(Head(anns).class_id), "bbox", Head(anns).data),
                image_id, Tail(anns))

save_annotations(d, anns, image_id, overwrite) ==
  SaveLoop(IF overwrite THEN delete_image_annotations(d, image_id) ELSE d, image_id, anns)

(* on_batch_inference_requested: the batch thread is started on the images *)
(* of the project, or on those not yet annotated.                           *)
StartBatch(only_unlabeled) ==
  /\ AnnotatePageShown
  /\ worker.pc = "idle"
  /\ LET images == [i \in 1 .. NumImages |-> i]
         filtered_images == IF only_unlabeled
                            THEN SelectSeq(images, LAMBDA i : db.status[i] # "annotated")
                            ELSE images
     IN  /\ filtered_images # <<>>
         /\ worker' = [pc |-> "run", todo |-> filtered_images]
  /\ lastOp' = OtherOp
  /\ UNCHANGED <<db, classes, pageVars, canvasVars, exported>>

(* What BatchLabelingThread.run does next when the image at the head of     *)
(* todo is done.                                                            *)
WorkerAfter(todo) ==
  IF Tail(todo) = <<>> THEN [pc |-> "idle"] ELSE [pc |-> "run", todo |-> Tail(todo)]

(* One iteration of BatchLabelingThread.run, the detector finding dets on   *)
(* the image; BatchLabelingManager sets overwrite_labels to True.           *)
BatchLabelImage(dets) ==
  /\ worker.pc = "run"
  /\ db.seq < MaxAnnId
  /\ db' = IF dets # <<>> THEN save_annotations(db, dets, Head(worker.todo), TRUE) ELSE db
  /\ worker' = WorkerAfter(worker.todo)
  /\ lastOp' = OtherOp
  /\ UNCHANGED <<current_page, classes, pageVars, canvasVars, exported>>

(* ------------------- signals of the canvas to the page ------------------ *)
(* annotation_created, for a rectangle the canvas accepted: the annotation  *)
(* carries the canvas's current class.                                      *)
AnnotationCreated(data) ==
  /\ AnnotatePageShown
  /\ history_index + 1 < MaxHist
  /\ on_annotation_created([type |-> "bbox", class_id |-> current_class_id, data |-> data])
  /\ lastOp' = OtherOp
  /\ UNCHANGED otherVars

(* annotation_deleted, for the annotation the canvas has selected: the k-th *)
(* of the annotations it shows.                                             *)
AnnotationDeleted(k) ==
  /\ AnnotatePageShown
  /\ k \in 1 .. Len(annotations)
  /\ history_index + 1 < MaxHist
  /\ on_annotation_deleted(annotations[k].id)
  /\ lastOp' = OtherOp
  /\ UNCHANGED otherVars

(* ----------------------------- main window ------------------------------ *)
DefaultClasses == <<[id |-> 0, name |-> "person"], [id |-> 1, name |-> "car"]>>

(* switch_page to the import page (0) or to the annotation page (1), whose  *)
(* set_project reloads the project's classes.                               *)
switch_page(index) ==
  /\ current_page' = index
  /\ IF index = 1
     THEN LET cls == IF db.classes = <<>> THEN DefaultClasses ELSE db.classes
          IN  classes' = cls /\ UpdateClassList(cls)
     ELSE UNCHANGED <<classes, class_list, current_class_id>>
  /\ lastOp' = OtherOp
  /\ UNCHANGED <<db, current_image_id, annotations, selected_annotation_id, history,
                 history_index, otherVars>>

(* ---------------------------- import page ------------------------------- *)
B1 == Bbox(Px(2), Px(2), Px(10), Px(8))
B2 == Bbox(Px(12) + 2, Px(4), Px(6), Px(6))

(* The decoded lines of a YOLO label file.                                  *)
YoloObjs ==
  LET o0 == [class_id |-> 0, data |-> B1]
      oM == [class_id |-> MaxClassId, data |-> B2]
  IN  {<<>>, <<o0>>, <<oM>>, <<o0, oM>>}

YoloInputs ==
  {<<[image |-> i, objs |-> objs]>> : i \in {None} \cup ImageIds, objs \in YoloObjs}
    \cup {<<[image |-> 1, objs |-> objs], [image |-> NumImages, objs |-> objs]>> :
            objs \in YoloObjs \ {<<>>}}

(* COCO files: image ids 1 .. NumImages name the project's images, id       *)
(* NumImages + 1 names a file the project does not hold, and no image has   *)
(* the id NumImages + 2.                                                    *)
CocoImages == [i \in 1 .. NumImages + 1 |-> IF i <= NumImages THEN i ELSE None]

CocoCategories == [c \in {0, MaxClassId} |-> IF c = 0 THEN "person" ELSE "dog"]

CocoBox(image_id, category_id, data) ==
  [image_id |-> image_id, category_id |-> category_id, has_bbox |-> TRUE,
   bbox |-> <<data.x, data.y, data.width, data.height>>,
   has_segmentation |-> FALSE, segmentation |-> <<>>]

CocoAnnotationLists ==
  {<<CocoBox(1, 0, B1)>>,
   <<CocoBox(1, 0, B1), CocoBox(1, MaxClassId, B2)>>,
   <<CocoBox(1, 0, B1), CocoBox(NumImages, 0, B2)>>,
   <<CocoBox(NumImages, 1, B1)>>,
   <<CocoBox(NumImages + 1, 0, B1)>>,
   <<CocoBox(NumImages + 2, 0, B1)>>,
   <<[CocoBox(1, 0, B1) EXCEPT !.has_segmentation = TRUE]>>}

CocoInputs ==
  {[images |-> CocoImages, categories |-> CocoCategories, annotations |-> anns] :
     anns \in CocoAnnotationLists}

(* The <object> elements of a VOC file.                                     *)
VocBox(b) == [xmin |-> b.x, ymin |-> b.y, xmax |-> b.x + b.width, ymax |-> b.y + b.height]

VocObjs ==
  LET car == [name |-> "car", box |-> "ok", bndbox |-> VocBox(B1)]
  IN  {<<car>>, <<car, [car EXCEPT !.name = "dog"]>>,
       <<[car EXCEPT !.box = "none"]>>, <<[car EXCEPT !.box = "bad"], car>>, <<>>}

VocInputs ==
  {<<[image |-> i, objs |-> objs]>> : i \in {None} \cup ImageIds, objs \in VocObjs}

(* The folders and files the user picks on the import page.                 *)
PageYoloInputs ==
  {<<[image |-> 1, objs |-> <<[class_id |-> MaxClassId, data |-> B1]>>]>>}

PageCocoInputs ==
  {[images |-> CocoImages, categories |-> CocoCategories,
    annotations |-> <<CocoBox(NumImages, 0, B1)>>]}

PageVocInputs ==
  {<<[image |-> NumImages, objs |-> <<[name |-> "car", box |-> "ok", bndbox |-> VocBox(B1)]>>]>>}

(* The import page's three handlers.  The page calls the importer with its  *)
(* default overwrite = False; overwrite is the importer's own parameter.    *)
ImportYolo(files, overwrite) ==
  /\ current_page = 0
  /\ LET res == import_yolo_annotations(db, db.classes, files, overwrite)
     IN  /\ db' = res.d
         /\ lastOp' = [op |-> "import_yolo", files |-> files, overwrite |-> overwrite,
                       imported |-> res.imported, skipped |-> res.skipped]
  /\ UNCHANGED <<current_page, classes, pageVars, otherVars>>

ImportCoco(coco, overwrite) ==
  /\ current_page = 0
  /\ LET res == import_coco_annotations(db, coco, overwrite)
     IN  /\ db' = res.d
         /\ lastOp' = [op |-> "import_coco", coco |-> coco, overwrite |-> overwrite,
                       imported |-> res.imported, skipped |-> res.skipped]
  /\ UNCHANGED <<current_page, classes, pageVars, otherVars>>

ImportVoc(files, overwrite) ==
  /\ current_page = 0
  /\ LET res == import_voc_annotations(db, db.classes, files, overwrite)
     IN  /\ db' = res.d
         /\ lastOp' = [op |-> "import_voc", files |-> files, overwrite |-> overwrite,
                       imported |-> res.imported, skipped |-> res.skipped]
  /\ UNCHANGED <<current_page, classes, pageVars, otherVars>>

(* ----------------------- inputs of the page's handlers ------------------ *)
ClassNames == {"truck"}

(* What the detector finds on an image.                                     *)
Detections ==
  {<<>>, <<[class_id |-> 1, data |-> B2]>>,
   <<[class_id |-> 0, data |-> B1], [class_id |-> MaxClassId, data |-> B2]>>}

PageDetections == {<<>>, <<[class_id |-> 1, data |-> B1]>>}

(* The configurations the batch dialog accepts: a point inside B1, a range  *)
(* of the image list, and classes picked from the class list.               *)
BatchConfigs(cls) ==
  {[points |-> <<Point(5, 5)>>, start_idx |-> 0, end_idx |-> e, operation |-> "delete",
    target_classes |-> {c}, source_classes |-> {}, target_class |-> None] :
     e \in {0, NumImages - 1}, c \in ClassIds(cls)}
  \cup
  {[points |-> <<Point(5, 5)>>, start_idx |-> 0, end_idx |-> NumImages - 1,
    operation |-> "modify", target_classes |-> {}, source_classes |-> {c},
    target_class |-> t] : <<c, t>> \in {ct \in ClassIds(cls) \X ClassIds(cls) :
                                          ct[1] # ct[2]}}

(* ------------------------------ the system ------------------------------ *)
EmptyDb(cls) ==
  [annotations |-> <<>>, status |-> [i \in ImageIds |-> "pending"], seq |-> 0,
   classes |-> cls]

IdleCanvas ==
  /\ current_image = FALSE
  /\ image_scale = Frac(1, 1)
  /\ image_offset = Point(0, 0)
  /\ widget_rect = WidgetRect
  /\ current_tool = "rectangle"
  /\ drawing = FALSE /\ start_point = NoPoint /\ current_point = NoPoint
  /\ dragging = FALSE /\ drag_start = NoPoint /\ drag_start_annotation = NoData
  /\ resizing = FALSE /\ resize_handle = "none" /\ resize_start_rect = NoData
  /\ panning = FALSE /\ pan_start = NoPoint /\ pan_start_offset = NoPoint
  /\ left_button_down = FALSE
  /\ polygon_points = <<>>

IdleWorker == [pc |-> "idle"]
NoFile == [none |-> TRUE]

(* A project with NumImages images whose classes column holds person and   *)
(* car (update_project wrote it when a class was added and deleted again),  *)
(* opened on the import page; the annotation page holds nothing yet.        *)
Init ==
  /\ db = EmptyDb(DefaultClasses)
  /\ current_page = 0
  /\ classes = <<>>
  /\ class_list = <<>>
  /\ current_image_id = None
  /\ annotations = <<>>
  /\ selected_annotation_id = None
  /\ current_class_id = 0
  /\ history = <<>>
  /\ history_index = 0 - 1
  /\ lastOp = Op("init")
  /\ IdleCanvas
  /\ worker = IdleWorker
  /\ exported = NoFile

Next ==
  \/ \E index \in {0, 1} : switch_page(index)
  \/ \E i \in ImageIds : SelectImage(i)
  \/ \E r \in 1 .. MaxClasses : OnClassSelected(r)
  \/ \E data \in {B1} : db.seq < MaxAnnId /\ AnnotationCreated(data)
  \/ \E k \in 1 .. MaxAnnId : AnnotationDeleted(k)
  \/ Undo
  \/ \E name \in ClassNames : add_class(name)
  \/ \E r \in 1 .. MaxClasses : delete_class(r)
  \/ \E config \in BatchConfigs(classes) : execute_batch_process(config)
  \/ \E dets \in PageDetections, overwrite_labels \in BOOLEAN :
       run_single_inference(dets, overwrite_labels)
  \/ \E only_unlabeled \in BOOLEAN : StartBatch(only_unlabeled)
  \/ \E dets \in PageDetections : BatchLabelImage(dets)
  \/ \E files \in PageYoloInputs : db.seq < MaxAnnId /\ ImportYolo(files, FALSE)
  \/ \E coco \in PageCocoInputs : db.seq < MaxAnnId /\ ImportCoco(coco, FALSE)
  \/ \E files \in PageVocInputs : db.seq < MaxAnnId /\ ImportVoc(files, FALSE)

Spec == Init /\ [][Next]_vars

(* ------------------------------ COCO export ----------------------------- *)
(* The entries export_annotations writes for the annotations anns of one    *)
(* image: bbox annotations only, their numbers passed through int().        *)
RECURSIVE ExportAnnotations(_)
ExportAnnotations(anns) ==
  IF anns = <<>> THEN <<>>
  ELSE LET ann == Head(anns)
           entry == [image_id |-> ann.image_id, category_id |-> ann.class_id,
                     has_bbox |-> TRUE,
                     bbox |-> <<IntPx(ann.data.x), IntPx(ann.data.y),
                                IntPx(ann.data.width), IntPx(ann.data.height)>>,
                     has_segmentation |-> TRUE, segmentation |-> <<>>]
       IN  (IF ann.type = "bbox" THEN <<entry>> ELSE <<>>) \o ExportAnnotations(Tail(anns))

RECURSIVE ExportImages(_, _)
ExportImages(d, image_ids) ==
  IF image_ids = <<>> THEN <<>>
  ELSE ExportAnnotations(get_image_annotations(d, Head(image_ids)))
         \o ExportImages(d, Tail(image_ids))

(* The annotations.json of export_annotations: every image of the project   *)
(* under its own id and file name, the page's classes as categories.        *)
CocoFile(d, cls) ==
  [images |-> [i \in ImageIds |-> i],
   categories |-> [c \in ClassIds(cls) |-> class_name_of(cls, c)],
   annotations |-> ExportImages(d, [i \in 1 .. NumImages |-> i])]

(* export_annotations with the COCO format chosen.                          *)
export_annotations ==
  /\ AnnotatePageShown
  /\ exported' = [file |-> CocoFile(db, classes), project |-> db.annotations]
  /\ lastOp' = Op("export_coco")
  /\ UNCHANGED <<db, classes, pageVars, canvasVars, worker>>

(* -------------------- the importers on their own ----------------------- *)
MaxImportSeq == 3

Existing1 == add_annotation(EmptyDb(DefaultClasses), 1, 1, "car", "bbox", B2)
Existing2 == add_annotation(EmptyDb(DefaultClasses), NumImages, 0, "person", "bbox", B1)

(* Projects with no annotations, or with one on some of their images.       *)
ImportDbs ==
  {EmptyDb(DefaultClasses), Existing1, Existing2,
   add_annotation(Existing1, NumImages, 0, "person", "bbox", B1)}

InitImport ==
  /\ db \in ImportDbs
  /\ current_page = 0
  /\ classes = <<>>
  /\ class_list = <<>>
  /\ current_image_id = None
  /\ annotations = <<>>
  /\ selected_annotation_id = None
  /\ current_class_id = 0
  /\ history = <<>>
  /\ history_index = 0 - 1
  /\ lastOp = Op("init")
  /\ IdleCanvas
  /\ worker = IdleWorker
  /\ exported = NoFile

NextImport ==
  \/ \E files \in YoloInputs, overwrite \in BOOLEAN :
       db.seq < MaxImportSeq /\ ImportYolo(files, overwrite)
  \/ \E coco \in CocoInputs, overwrite \in BOOLEAN :
       db.seq < MaxImportSeq /\ ImportCoco(coco, overwrite)
  \/ \E files \in VocInputs, overwrite \in BOOLEAN :
       db.seq < MaxImportSeq /\ ImportVoc(files, overwrite)

SpecImport == InitImport /\ [][NextImport]_vars

(* ===================== properties of the importers ====================== *)
IsImport(op) == op.op \in {"import_yolo", "import_coco", "import_voc"}

(* An annotation as the input of an import describes it: no row id, no name. *)
Bare(anns) ==
  [k \in 1 .. Len(anns) |->
     [class_id |-> anns[k].class_id, type |-> anns[k].type, data |-> anns[k].data]]

RECURSIVE Concat(_)
Concat(ss) == IF ss = <<>> THEN <<>> ELSE Head(ss) \o Concat(Tail(ss))

(* The image a COCO entry names, or None.                                   *)
CocoTarget(coco, ann) ==
  IF ann.image_id \in DOMAIN coco.images THEN coco.images[ann.image_id] ELSE None

(* The valid objects the input of the import op holds for image i.          *)
Decoded(op, cls, i) ==
  IF op.op = "import_yolo"
  THEN Concat([k \in 1 .. Len(op.files) |->
                 IF op.files[k].image # i THEN <<>>
                 ELSE [j \in 1 .. Len(op.files[k].objs) |->
                         [class_id |-> op.files[k].objs[j].class_id, type |-> "bbox",
                          data |-> op.files[k].objs[j].data]]])
  ELSE IF op.op = "import_voc"
  THEN Concat([k \in 1 .. Len(op.files) |->
                 IF op.files[k].image # i THEN <<>>
                 ELSE Concat([j \in 1 .. Len(op.files[k].objs) |->
                        LET obj == op.files[k].objs[j]
                        IN  IF obj.name = "" \/ obj.box # "ok" THEN <<>>
                            ELSE <<[class_id |-> class_map_get(cls, obj.name, 0),
                                    type |-> "bbox",
                                    data |-> Bbox(obj.bndbox.xmin, obj.bndbox.ymin,
                                                  obj.bndbox.xmax - obj.bndbox.xmin,
                                                  obj.bndbox.ymax - obj.bndbox.ymin)]>>])])
  ELSE Concat([k \in 1 .. Len(op.coco.annotations) |->
                 LET ann == op.coco.annotations[k]
                 IN  IF CocoTarget(op.coco, ann) # i
                        \/ ann.category_id \notin DOMAIN op.coco.categories
                     THEN <<>>
                     ELSE (IF ann.has_bbox
                           THEN <<[class_id |-> ann.category_id, type |-> "bbox",
                                   data |-> Bbox(ann.bbox[1], ann.bbox[2],
                                                 ann.bbox[3], ann.bbox[4])]>>
                           ELSE <<>>)
                          \o (IF ann.has_segmentation
                              THEN <<[class_id |-> ann.category_id, type |-> "polygon",
                                      data |-> [points |-> ann.segmentation]]>>
                              ELSE <<>>)])

(* The items of the input (label files, COCO entries) that name an image    *)
(* holding annotations in database d.                                       *)
ItemsOnAnnotated(op, d) ==
  IF op.op = "import_coco"
  THEN {k \in 1 .. Len(op.coco.annotations) :
          LET i == CocoTarget(op.coco, op.coco.annotations[k])
          IN  i # None /\ get_image_annotations(d, i) # <<>>}
  ELSE {k \in 1 .. Len(op.files) :
          op.files[k].image # None /\ get_image_annotations(d, op.files[k].image) # <<>>}

(* C2: an import with overwrite = true leaves every image that held         *)
(* annotations, and for which the input holds n >= 1 valid objects, with    *)
(* exactly those n annotations: the old ones gone, the new ones all there.  *)
C2_OverwriteReplacesPerImage ==
  [][(IsImport(lastOp') /\ lastOp'.overwrite) =>
       \A i \in ImageIds :
         (get_image_annotations(db, i) # <<>> /\ Decoded(lastOp', db.classes, i) # <<>>)
           => Bare(get_image_annotations(db', i)) = Decoded(lastOp', db.classes, i)]_vars

(* C3: an import with overwrite = false leaves every image that held        *)
(* annotations with the same annotations, and counts every item of the      *)
(* input that names such an image as skipped.                               *)
C3_NoOverwriteSkipsNeverMerges ==
  [][(IsImport(lastOp') /\ ~lastOp'.overwrite) =>
       /\ \A i \in ImageIds :
            get_image_annotations(db, i) # <<>>
              => get_image_annotations(db', i) = get_image_annotations(db, i)
       /\ lastOp'.skipped >= Cardinality(ItemsOnAnnotated(lastOp', db))]_vars

(* C3's case: two label files imported without overwrite, the first for an  *)
(* image that held annotations (skipped), the second imported.              *)
C3_Witness ==
  /\ lastOp.op = "import_yolo"
  /\ ~lastOp.overwrite
  /\ Len(lastOp.files) = 2
  /\ lastOp.skipped = 1
  /\ lastOp.imported >= 1
  /\ get_image_annotations(db, lastOp.files[1].image) # <<>>

(* =================== properties of the store and page ==================== *)
(* The handlers C7 names: class add and delete, canvas creation, the three  *)
(* imports and the batch relabel, with the navigation they need; no         *)
(* auto-labelling.                                                          *)
NextManual ==
  \/ \E index \in {0, 1} : switch_page(index)
  \/ \E i \in ImageIds : SelectImage(i)
  \/ \E r \in 1 .. MaxClasses : OnClassSelected(r)
  \/ \E data \in {B1} : db.seq < MaxAnnId /\ AnnotationCreated(data)
  \/ \E name \in ClassNames : add_class(name)
  \/ \E r \in 1 .. MaxClasses : delete_class(r)
  \/ \E config \in BatchConfigs(classes) : execute_batch_process(config)
  \/ \E files \in PageYoloInputs : db.seq < MaxAnnId /\ ImportYolo(files, FALSE)
  \/ \E coco \in PageCocoInputs : db.seq < MaxAnnId /\ ImportCoco(coco, FALSE)
  \/ \E files \in PageVocInputs : db.seq < MaxAnnId /\ ImportVoc(files, FALSE)

SpecManual == Init /\ [][NextManual]_vars

AnnotationWithId(d, annotation_id) ==
  {k \in 1 .. Len(d.annotations) : d.annotations[k].id = annotation_id}

(* C5: after delete_class removes the class with id k, no annotation that   *)
(* referred to k is left on any image, and every annotation of a class      *)
(* whose id was greater than k is still there with its class id lowered by  *)
(* one.                                                                     *)
C5_DeleteClassCascades ==
  [][lastOp'.op = "delete_class" =>
       \A j \in 1 .. Len(db.annotations) :
         LET a == db.annotations[j]
             k == lastOp'.class_id
         IN  /\ a.class_id = k => AnnotationWithId(db', a.id) = {}
             /\ (a.class_id > k /\ a.class_id \in ClassIds(db.classes)) =>
                  \E m \in AnnotationWithId(db', a.id) :
                    db'.annotations[m].class_id = a.class_id - 1]_vars

(* C6: the stored status of every image is annotated exactly when the image *)
(* has at least one annotation, and pending otherwise.                      *)
C6_StatusIsDerived ==
  \A i \in ImageIds :
    db.status[i] = (IF get_image_annotations(db, i) # <<>> THEN "annotated" ELSE "pending")

(* C7: with no auto-labelling, the class id of every stored annotation is   *)
(* the id of a class of the project's class list.                           *)
C7_ClassIdsResolve ==
  \A j \in 1 .. Len(db.annotations) : db.annotations[j].class_id \in ClassIds(db.classes)

(* C8: no two entries of the project's class list have the same id, and     *)
(* right after a delete_class the ids are exactly 0 .. n-1.                 *)
C8_ClassIdsUnique ==
  /\ \A i, j \in 1 .. Len(db.classes) : db.classes[i].id = db.classes[j].id => i = j
  /\ lastOp.op = "delete_class" => ClassIds(db.classes) = 0 .. Len(db.classes) - 1

(* ========================= the COCO round trip ========================== *)
B3 == Bbox(Px(12), Px(4), Px(6), Px(6))

(* create_new_project followed by the import of the same image files: the   *)
(* project at hand is a new one, with the same images and no annotations.   *)
create_new_project ==
  /\ current_page = 0
  /\ db' = EmptyDb(<<>>)
  /\ lastOp' = OtherOp
  /\ UNCHANGED <<current_page, classes, pageVars, otherVars>>

(* What one image may hold before the export: bboxes with whole-pixel       *)
(* coordinates, of the project's classes.                                   *)
RoundTripBoxes ==
  {<<>>, <<[class_id |-> 0, data |-> B1]>>, <<[class_id |-> 1, data |-> B3]>>,
   <<[class_id |-> 0, data |-> B1], [class_id |-> 1, data |-> B3]>>,
   <<[class_id |-> 0, data |-> B1], [class_id |-> 0, data |-> B3]>>}

RECURSIVE AddBoxes(_, _, _)
AddBoxes(d, image_id, boxes) ==
  IF boxes = <<>> THEN d
  ELSE AddBoxes(add_annotation(d, image_id, Head(boxes).class_id,
                               class_name_of(d.classes, Head(boxes).class_id),
                               "bbox", Head(boxes).data),
                image_id, Tail(boxes))

RoundTripDbs ==
  {AddBoxes(AddBoxes(EmptyDb(DefaultClasses), 1, b1), NumImages, b2) :
     b1 \in RoundTripBoxes, b2 \in RoundTripBoxes}

InitCoco ==
  /\ db \in RoundTripDbs
  /\ current_page = 1
  /\ classes = DefaultClasses
  /\ class_list = <<0, 1>>
  /\ current_image_id = None
  /\ annotations = <<>>
  /\ selected_annotation_id = None
  /\ current_class_id = 0
  /\ history = <<>>
  /\ history_index = 0 - 1
  /\ lastOp = Op("init")
  /\ IdleCanvas
  /\ worker = IdleWorker
  /\ exported = NoFile

NextCoco ==
  \/ export_annotations
  \/ \E index \in {0, 1} : switch_page(index)
  \/ create_new_project
  \/ \E overwrite \in BOOLEAN :
       /\ exported # NoFile
       /\ db.seq < MaxImportSeq
       /\ ImportCoco(exported.file, overwrite)

SpecCoco == InitCoco /\ [][NextCoco]_vars

(* The bboxes of anns as a multiset of (x, y, width, height, class name).   *)
BoxesOf(anns) ==
  LET boxes == SelectSeq(anns, LAMBDA a : a.type = "bbox")
      items == [k \in 1 .. Len(boxes) |->
                  [data |-> boxes[k].data, class_name |-> boxes[k].class_name]]
  IN  [e \in {items[k] : k \in 1 .. Len(items)} |->
         Cardinality({k \in 1 .. Len(items) : items[k] = e})]

(* C1: importing the exported COCO file, with overwrite = true or into a    *)
(* project without annotations, leaves every image with the multiset of     *)
(* bboxes and class names it had when the file was exported.                *)
C1_CocoRoundTrip ==
  [][(/\ lastOp'.op = "import_coco"
      /\ exported # NoFile
      /\ lastOp'.coco = exported.file
      /\ (lastOp'.overwrite \/ db.annotations = <<>>))
       => \A i \in ImageIds :
            BoxesOf(get_image_annotations(db', i))
              = BoxesOf(SelectSeq(exported.project, LAMBDA a : a.image_id = i))]_vars

(* ============ the batch thread against the page's reads ================= *)
(* BatchLabelingThread.run in the steps the database lets other threads     *)
(* see: delete_image_annotations and every add_annotation open a connection *)
(* of their own and commit it.  The page reads on the GUI thread.           *)
StoredDetections(dets) ==
  [k \in 1 .. Len(dets) |->
     [class_id |-> dets[k].class_id, type |-> "bbox", data |-> dets[k].data]]

(* save_annotations, up to the commit of its delete: the thread holds the   *)
(* detections of the image at the head of todo.                             *)
SaveDelete(dets) ==
  /\ worker.pc = "run"
  /\ dets # <<>>
  /\ db' = delete_image_annotations(db, Head(worker.todo))
  /\ worker' = [pc |-> "save", todo |-> worker.todo, pending |-> dets,
                old |-> Bare(get_image_annotations(db, Head(worker.todo))),
                new |-> StoredDetections(dets)]
  /\ lastOp' = OtherOp
  /\ UNCHANGED <<current_page, classes, pageVars, canvasVars, exported>>

(* One pass of the loop of save_annotations: one add_annotation, committed. *)
SaveInsert ==
  /\ worker.pc = "save"
  /\ db' = add_annotation(db, Head(worker.todo), Head(worker.pending).class_id,
                          AutoName(Head(worker.pending).class_id), "bbox",
                          Head(worker.pending).data)
  /\ worker' = IF Tail(worker.pending) = <<>> THEN WorkerAfter(worker.todo)
               ELSE [worker EXCEPT !.pending = Tail(@)]
  /\ lastOp' = OtherOp
  /\ UNCHANGED <<current_page, classes, pageVars, canvasVars, exported>>

(* An image on which the detector finds nothing: nothing is saved.          *)
NothingDetected ==
  /\ worker.pc = "run"
  /\ worker' = WorkerAfter(worker.todo)
  /\ lastOp' = OtherOp
  /\ UNCHANGED <<db, current_page, classes, pageVars, canvasVars, exported>>

ConcBoxes ==
  {<<>>, <<[class_id |-> 1, data |-> B3]>>,
   <<[class_id |-> 0, data |-> B1], [class_id |-> 1, data |-> B3]>>}

ConcDbs ==
  {AddBoxes(AddBoxes(EmptyDb(DefaultClasses), 1, b1), NumImages, b2) :
     b1 \in ConcBoxes, b2 \in ConcBoxes}

InitConc ==
  /\ db \in ConcDbs
  /\ current_page = 1
  /\ classes = DefaultClasses
  /\ class_list = <<0, 1>>
  /\ current_image_id = None
  /\ annotations = <<>>
  /\ selected_annotation_id = None
  /\ current_class_id = 0
  /\ history = <<>>
  /\ history_index = 0 - 1
  /\ lastOp = Op("init")
  /\ IdleCanvas
  /\ worker = IdleWorker
  /\ exported = NoFile

NextConc ==
  \/ \E only_unlabeled \in BOOLEAN : StartBatch(only_unlabeled)
  \/ \E dets \in Detections : db.seq < MaxImportSeq /\ SaveDelete(dets)
  \/ SaveInsert
  \/ NothingDetected
  \/ \E i \in ImageIds : SelectImage(i)

SpecConc == InitConc /\ [][NextConc]_vars

(* C4: what the page reads for an image while save_annotations replaces its *)
(* annotations with overwrite = true is the complete old set or the         *)
(* complete new set.                                                        *)
C4_OverwriteAtomicPerImage ==
  (/\ worker.pc = "save"
   /\ lastOp.op = "load_image"
   /\ current_image_id = Head(worker.todo))
    => Bare(annotations) \in {worker.old, worker.new}

(* ======================= the canvas's mouse handlers ==================== *)
(* An offset in widget pixels as an offset in image coordinates:            *)
(* delta / image_scale, exact for the scales used.                          *)
ToImageDelta(delta, scale) == (delta * scale.d * SubPixel) \div scale.n

ClampTo(v, hi) == Max(0, Min(v, hi))

(* QPoint and dict as Python conditions: a null point and None are false.   *)
PointIsTrue(p) == p # NoPoint /\ p # Point(0, 0)
DataIsTrue(d) == d # NoData

(* drag_annotation: the data of the annotation dragged to pos.  The press   *)
(* kept data.copy(), a shallow copy: x and y of a bbox are those of the     *)
(* press, while the points of a polygon are the very objects the drag       *)
(* rewrites, so that each move starts from the points as they are.          *)
drag_annotation(pos, annotation, start_pos, start_annotation, scale) ==
  LET img_delta_x == ToImageDelta(pos.x - start_pos.x, scale)
      img_delta_y == ToImageDelta(pos.y - start_pos.y, scale)
      data == annotation.data
  IN  IF annotation.type = "bbox"
      THEN [data EXCEPT
              !.x = Max(0, Min(start_annotation.x + img_delta_x, ImgW - data.width)),
              !.y = Max(0, Min(start_annotation.y + img_delta_y, ImgH - data.height))]
      ELSE IF annotation.type = "polygon"
      THEN [data EXCEPT
              !.points = [i \in 1 .. Len(@) |->
                            Point(ClampTo(@[i].x + img_delta_x, ImgW),
                                  ClampTo(@[i].y + img_delta_y, ImgH))]]
      ELSE data

(* resize_annotation: the bbox that results when `handle` of the bbox that  *)
(* was `start` at the press is pulled to pos.                               *)
resize_annotation(pos, handle, start, scale, off) ==
  LET p == widget_to_image(pos, scale, off)
      img_x == ClampTo(p.x, ImgW)
      img_y == ClampTo(p.y, ImgH)
      right == start.x + start.width
      bottom == start.y + start.height
      pulled ==
        IF handle = "top_left"
        THEN LET x == Max(0, Min(img_x, right))
                 y == Max(0, Min(img_y, bottom))
             IN  Bbox(x, y, right - x, bottom - y)
        ELSE IF handle = "top_right"
        THEN LET y == Max(0, Min(img_y, bottom))
             IN  Bbox(start.x, y, Min(img_x, ImgW) - start.x, bottom - y)
        ELSE IF handle = "bottom_left"
        THEN LET x == Max(0, Min(img_x, right))
             IN  Bbox(x, start.y, right - x, Min(img_y, ImgH) - start.y)
        ELSE Bbox(start.x, start.y, Min(img_x, ImgW) - start.x, Min(img_y, ImgH) - start.y)
      flipped == Bbox(IF pulled.width < 0 THEN pulled.x + pulled.width ELSE pulled.x,
                      IF pulled.height < 0 THEN pulled.y + pulled.height ELSE pulled.y,
                      Abs(pulled.width), Abs(pulled.height))
      x == ClampTo(flipped.x, ImgW)
      y == ClampTo(flipped.y, ImgH)
  IN  Bbox(x, y, Min(flipped.width, ImgW - x), Min(flipped.height, ImgH - y))

(* A rectangle that accepts any size.                                       *)
AnySize(width, height) == FALSE

(* create_rectangle_annotation: is the rectangle too small to keep?         *)
TooSmall(width, height) == width < Px(MinRectSize) \/ height < Px(MinRectSize)

(* create_rectangle_annotation: the annotation the canvas emits for the     *)
(* rectangle drawn from p1 to p2, or NoData.                                *)
create_rectangle_annotation(p1, p2, scale, off, class_id) ==
  IF p1 = NoPoint \/ p2 = NoPoint THEN NoData
  ELSE LET a == widget_to_image(p1, scale, off)
           b == widget_to_image(p2, scale, off)
           x == ClampTo(Min(a.x, b.x), ImgW)
           y == ClampTo(Min(a.y, b.y), ImgH)
           width == Min(Abs(b.x - a.x), ImgW - x)
           height == Min(Abs(b.y - a.y), ImgH - y)
       IN  IF TooSmall(width, height) THEN NoData
           ELSE [type |-> "bbox", class_id |-> class_id,
                 data |-> Bbox(x, y, width, height)]

SetData(anns, i, data) == [anns EXCEPT ![i] = [@ EXCEPT !.data = data]]

(* A change of tool that keeps the shape being drawn.                       *)
KeepShape(tool) ==
  /\ AnnotatePageShown
  /\ current_tool' = tool
  /\ lastOp' = [op |-> "set_tool", discarded |-> drawing \/ polygon_points # <<>>]
  /\ UNCHANGED <<db, classes, pageVars, viewVars, drawing, polygon_points, start_point,
                 current_point, dragging, drag_start, drag_start_annotation, resizing,
                 resize_handle, resize_start_rect, panning, pan_start, pan_start_offset,
                 left_button_down, worker, exported>>

(* AnnotatePage.set_tool, from a tool button or its shortcut.  lastOp tells *)
(* whether a shape was being drawn.                                         *)
set_tool(tool) ==
  /\ AnnotatePageShown
  /\ current_tool' = tool
  /\ drawing' = FALSE
  /\ polygon_points' = <<>>
  /\ lastOp' = [op |-> "set_tool", discarded |-> drawing \/ polygon_points # <<>>]
  /\ UNCHANGED <<db, classes, pageVars, viewVars, start_point, current_point, dragging,
                 drag_start, drag_start_annotation, resizing, resize_handle,
                 resize_start_rect, panning, pan_start, pan_start_offset,
                 left_button_down, worker, exported>>

(* mousePressEvent, left button, outside the batch mode.                    *)
mousePressEvent(pos) ==
  /\ AnnotatePageShown
  /\ ~left_button_down
  /\ left_button_down' = TRUE
  /\ lastOp' = [op |-> "mouse_press", pos |-> pos]
  /\ UNCHANGED <<db, classes, class_list, current_image_id, annotations, current_class_id,
                 history, history_index, viewVars, current_tool, worker, exported>>
  /\ polygon_points' = IF current_image /\ current_tool = "polygon"
                        THEN Append(polygon_points, pos) ELSE polygon_points
  /\ IF ~current_image \/ current_tool = "polygon"
     THEN UNCHANGED <<selected_annotation_id, drawing, start_point, current_point,
                      dragging, drag_start, drag_start_annotation, resizing,
                      resize_handle, resize_start_rect, panning, pan_start,
                      pan_start_offset>>
     ELSE IF current_tool = "rectangle"
     THEN /\ drawing' = TRUE
          /\ start_point' = pos
          /\ current_point' = pos
          /\ UNCHANGED <<selected_annotation_id, dragging, drag_start,
                         drag_start_annotation, resizing, resize_handle,
                         resize_start_rect, panning, pan_start, pan_start_offset>>
     ELSE LET handle == get_resize_handle_at(pos, annotations, selected_annotation_id,
                                             image_scale, image_offset)
              clicked == get_annotation_at(pos, annotations, image_scale, image_offset)
          IN  IF handle # "none"
              THEN /\ resizing' = TRUE
                   /\ resize_handle' = handle
                   /\ drag_start' = pos
                   /\ resize_start_rect' =
                        annotations[AnnIndex(annotations, selected_annotation_id)].data
                   /\ UNCHANGED <<selected_annotation_id, drawing, start_point,
                                  current_point, dragging, drag_start_annotation,
                                  panning, pan_start, pan_start_offset>>
              ELSE IF clicked # None
              THEN /\ selected_annotation_id' = annotations[clicked].id
                   /\ dragging' = TRUE
                   /\ drag_start' = pos
                   /\ drag_start_annotation' = annotations[clicked].data
                   /\ UNCHANGED <<drawing, start_point, current_point, resizing,
                                  resize_handle, resize_start_rect, panning, pan_start,
                                  pan_start_offset>>
              ELSE /\ panning' = TRUE
                   /\ pan_start' = pos
                   /\ pan_start_offset' = image_offset
                   /\ UNCHANGED <<selected_annotation_id, drawing, start_point,
                                  current_point, dragging, drag_start,
                                  drag_start_annotation, resizing, resize_handle,
                                  resize_start_rect>>

(* mouseMoveEvent                                                           *)
mouseMoveEvent(pos) ==
  /\ AnnotatePageShown
  /\ current_point' = pos
  /\ lastOp' = Op("mouse_move")
  /\ UNCHANGED <<db, classes, class_list, current_image_id, selected_annotation_id,
                 current_class_id, history, history_index, current_image, image_scale,
                 widget_rect,
                 current_tool, drawing, start_point, dragging, drag_start,
                 drag_start_annotation, resizing, resize_handle, resize_start_rect,
                 panning, pan_start, pan_start_offset, left_button_down,
                 polygon_points, worker, exported>>
  /\ LET i == AnnIndex(annotations, selected_annotation_id)
     IN  IF (drawing /\ current_tool = "rectangle") \/ current_tool # "move"
         THEN UNCHANGED <<annotations, image_offset>>
         ELSE IF resizing /\ resize_handle # "none" /\ DataIsTrue(resize_start_rect)
         THEN /\ annotations' =
                   IF selected_annotation_id = None \/ i = None THEN annotations
                   ELSE SetData(annotations, i,
                                resize_annotation(pos, resize_handle, resize_start_rect,
                                                  image_scale, image_offset))
              /\ UNCHANGED image_offset
         ELSE IF dragging /\ PointIsTrue(drag_start) /\ DataIsTrue(drag_start_annotation)
         THEN /\ annotations' =
                   IF selected_annotation_id = None \/ i = None THEN annotations
                   ELSE SetData(annotations, i,
                                drag_annotation(pos, annotations[i], drag_start,
                                                drag_start_annotation, image_scale))
              /\ UNCHANGED image_offset
         ELSE IF panning /\ PointIsTrue(pan_start) /\ PointIsTrue(pan_start_offset)
         THEN /\ image_offset' = Point(pan_start_offset.x + pos.x - pan_start.x,
                                       pan_start_offset.y + pos.y - pan_start.y)
              /\ UNCHANGED annotations
         ELSE UNCHANGED <<annotations, image_offset>>

(* mouseReleaseEvent, left button, and the slot of the page that the signal *)
(* it emits runs.                                                           *)
mouseReleaseEvent ==
  /\ AnnotatePageShown
  /\ left_button_down
  /\ left_button_down' = FALSE
  /\ UNCHANGED <<classes, class_list, current_image_id, current_class_id, viewVars,
                 current_tool, polygon_points, worker, exported>>
  /\ IF drawing /\ current_tool = "rectangle"
     THEN LET annotation == create_rectangle_annotation(start_point, current_point,
                                                        image_scale, image_offset,
                                                        current_class_id)
          IN  /\ drawing' = FALSE
              /\ lastOp' = [op |-> "mouse_release", emitted |-> annotation]
              /\ IF annotation = NoData
                 THEN UNCHANGED <<db, annotations, selected_annotation_id, history,
                                  history_index, start_point, current_point>>
                 ELSE /\ db.seq < MaxAnnId
                      /\ history_index + 1 < MaxHist
                      /\ on_annotation_created(annotation)
                      /\ start_point' = NoPoint
                      /\ current_point' = NoPoint
              /\ UNCHANGED <<dragging, drag_start, drag_start_annotation, resizing,
                             resize_handle, resize_start_rect, panning, pan_start,
                             pan_start_offset>>
     ELSE /\ lastOp' = [op |-> "mouse_release", emitted |-> NoData]
          /\ UNCHANGED <<annotations, selected_annotation_id, drawing, start_point,
                         current_point>>
          /\ IF resizing \/ dragging
             THEN LET i == AnnIndex(annotations, selected_annotation_id)
                  IN  /\ IF resizing
                         THEN /\ resizing' = FALSE
                              /\ resize_handle' = "none"
                              /\ resize_start_rect' = NoData
                              /\ UNCHANGED <<dragging, drag_start, drag_start_annotation>>
                         ELSE /\ dragging' = FALSE
                              /\ drag_start' = NoPoint
                              /\ drag_start_annotation' = NoData
                              /\ UNCHANGED <<resizing, resize_handle, resize_start_rect>>
                      /\ IF selected_annotation_id # None /\ i # None
                         THEN on_annotation_modified(selected_annotation_id,
                                                     annotations[i].data)
                         ELSE UNCHANGED <<db, history, history_index>>
                      /\ UNCHANGED <<panning, pan_start, pan_start_offset>>
             ELSE /\ IF panning
                     THEN /\ panning' = FALSE
                          /\ pan_start' = NoPoint
                          /\ pan_start_offset' = NoPoint
                     ELSE UNCHANGED <<panning, pan_start, pan_start_offset>>
                  /\ UNCHANGED <<db, history, history_index, dragging, drag_start,
                                 drag_start_annotation, resizing, resize_handle,
                                 resize_start_rect>>

(* keyPressEvent of the canvas, Key_Escape: the polygon being drawn is      *)
(* dropped, or else the rectangle being drawn.                              *)
EscapeKey ==
  /\ AnnotatePageShown
  /\ (current_tool = "polygon" /\ Len(polygon_points) > 0) \/ drawing
  /\ IF current_tool = "polygon" /\ Len(polygon_points) > 0
     THEN polygon_points' = <<>> /\ UNCHANGED drawing
     ELSE drawing' = FALSE /\ UNCHANGED polygon_points
  /\ lastOp' = Op("escape")
  /\ UNCHANGED <<db, classes, pageVars, viewVars, current_tool, start_point,
                 current_point, dragging, drag_start, drag_start_annotation, resizing,
                 resize_handle, resize_start_rect, panning, pan_start, pan_start_offset,
                 left_button_down, worker, exported>>

(* A polygon whose vertices are not held to the image.                      *)
UnclampedPolygon(points, scale, off, class_id) ==
  [type |-> "polygon", class_id |-> class_id,
   data |-> [points |-> [k \in 1 .. Len(points) |->
                           widget_to_image(points[k], scale, off)]]]

(* create_polygon_annotation: the annotation the canvas emits for the       *)
(* vertices points, each brought to image coordinates and held to the image.*)
create_polygon_annotation(points, scale, off, class_id) ==
  [type |-> "polygon", class_id |-> class_id,
   data |-> [points |-> [k \in 1 .. Len(points) |->
                           LET q == widget_to_image(points[k], scale, off)
                           IN  Point(ClampTo(q.x, ImgW), ClampTo(q.y, ImgH))]]]

(* What mouseDoubleClickEvent and the Return key share: with the polygon    *)
(* tool and three vertices or more, the polygon is emitted, the page stores *)
(* it and the vertices are dropped.                                         *)
CommitPolygon(key, down) ==
  /\ AnnotatePageShown
  /\ current_tool = "polygon"
  /\ Len(polygon_points) >= 3
  /\ db.seq < MaxAnnId
  /\ history_index + 1 < MaxHist
  /\ LET annotation == create_polygon_annotation(polygon_points, image_scale,
                                                 image_offset, current_class_id)
     IN  /\ on_annotation_created(annotation)
         /\ lastOp' = [op |-> key, emitted |-> annotation]
  /\ polygon_points' = <<>>
  /\ UNCHANGED <<viewVars, current_tool, drawing, start_point, current_point, dragging,
                 drag_start, drag_start_annotation, resizing, resize_handle,
                 resize_start_rect, panning, pan_start, pan_start_offset, worker,
                 exported>>
  /\ left_button_down' = down

(* mouseDoubleClickEvent: the second press of a double click.               *)
mouseDoubleClickEvent == ~left_button_down /\ CommitPolygon("double_click", TRUE)

(* keyPressEvent of the canvas, Key_Return or Key_Enter.                    *)
ReturnKey == CommitPolygon("return", left_button_down)

(* --------------------- the canvas under the pointer --------------------- *)
(* How far, in widget pixels, the image is panned from where reset_view     *)
(* puts it.                                                                 *)
MaxPan == 8

(* Where the pointer goes: on each handle of B1 as the canvas shows it,     *)
(* inside B1, off the image past its bottom right corner, and left of it.   *)
Pointer ==
  {Point(16, 16), Point(36, 16), Point(16, 36), Point(36, 36), Point(28, 26),
   Point(50, 50), Point(8, 26)}

ResetOffset == reset_view_offset(WidgetRect, reset_view_scale(WidgetRect))

PanWithin(off) ==
  Abs(off.x - ResetOffset.x) <= MaxPan /\ Abs(off.y - ResetOffset.y) <= MaxPan

CanvasDb == add_annotation(EmptyDb(DefaultClasses), 1, 0, "person", "bbox", B1)

InitCanvas ==
  /\ db = CanvasDb
  /\ current_page = 1
  /\ classes = DefaultClasses
  /\ class_list = <<0, 1>>
  /\ current_image_id = None
  /\ annotations = <<>>
  /\ selected_annotation_id = None
  /\ current_class_id = 0
  /\ history = <<>>
  /\ history_index = 0 - 1
  /\ lastOp = Op("init")
  /\ IdleCanvas
  /\ worker = IdleWorker
  /\ exported = NoFile

NextCanvas ==
  \/ \E i \in ImageIds : SelectImage(i)
  \/ \E tool \in {"rectangle", "move"} : set_tool(tool)
  \/ \E pos \in Pointer : mousePressEvent(pos)
  \/ \E pos \in Pointer : mouseMoveEvent(pos) /\ PanWithin(image_offset')
  \/ mouseReleaseEvent /\ Len(history') <= MaxHist
  \/ EscapeKey
  \/ history_index + 1 < MaxHist /\ DeleteKey

SpecCanvas == InitCanvas /\ [][NextCanvas]_vars

(* The corner of the bbox start that stays where it is while handle is      *)
(* pulled.                                                                  *)
PinnedCorner(handle, start) ==
  Point(IF handle \in {"top_left", "bottom_left"} THEN start.x + start.width ELSE start.x,
        IF handle \in {"top_left", "top_right"} THEN start.y + start.height ELSE start.y)

(* The pointer is past the pinned corner on both axes.                      *)
Crossed(handle, pinned, p) ==
  /\ IF handle \in {"top_left", "bottom_left"} THEN p.x > pinned.x ELSE p.x < pinned.x
  /\ IF handle \in {"top_left", "top_right"} THEN p.y > pinned.y ELSE p.y < pinned.y

(* C9: a move of the pointer while a handle of the selected bbox is pulled  *)
(* leaves the bbox with width >= 0 and height >= 0, and when the pointer    *)
(* (held to the image) is past the pinned corner the bbox spans from the    *)
(* pinned corner to the pointer.                                            *)
C9_ResizeNormalizes ==
  [][(/\ lastOp'.op = "mouse_move"
      /\ current_tool = "move"
      /\ resizing /\ resize_handle # "none" /\ resize_start_rect # NoData
      /\ AnnIndex(annotations, selected_annotation_id) # None)
       => LET data == annotations'[AnnIndex(annotations, selected_annotation_id)].data
              q == widget_to_image(current_point', image_scale, image_offset)
              p == Point(ClampTo(q.x, ImgW), ClampTo(q.y, ImgH))
              pinned == PinnedCorner(resize_handle, resize_start_rect)
          IN  /\ data.width >= 0
              /\ data.height >= 0
              /\ Crossed(resize_handle, pinned, p) =>
                   data = Bbox(Min(p.x, pinned.x), Min(p.y, pinned.y),
                               Abs(p.x - pinned.x), Abs(p.y - pinned.y))]_vars

OffImage(a, b) ==
  \/ Max(a.x, b.x) < 0 \/ Min(a.x, b.x) > ImgW
  \/ Max(a.y, b.y) < 0 \/ Min(a.y, b.y) > ImgH

(* C11: a rectangle gesture that ends with both corners off the image on    *)
(* one side of it, or with no extent, emits nothing and stores nothing.     *)
C11_InvalidGestureDiscarded ==
  [][(lastOp'.op = "mouse_release" /\ drawing /\ current_tool = "rectangle")
       => LET a == widget_to_image(start_point, image_scale, image_offset)
              b == widget_to_image(current_point, image_scale, image_offset)
          IN  (OffImage(a, b) \/ a.x = b.x \/ a.y = b.y)
                => lastOp'.emitted = NoData /\ db'.annotations = db.annotations]_vars

(* ========================= the polygon tool ============================= *)
(* How many vertices a polygon being drawn gets.                            *)
MaxVertices == 3

(* Where the pointer goes: the corners of a triangle on the image and a     *)
(* point off the image.                                                     *)
PolygonPointer == {Point(22, 22), Point(42, 22), Point(32, 38), Point(50, 50)}

InitPolygon ==
  /\ db = EmptyDb(DefaultClasses)
  /\ current_page = 1
  /\ classes = DefaultClasses
  /\ class_list = <<0, 1>>
  /\ current_image_id = None
  /\ annotations = <<>>
  /\ selected_annotation_id = None
  /\ current_class_id = 0
  /\ history = <<>>
  /\ history_index = 0 - 1
  /\ lastOp = Op("init")
  /\ IdleCanvas
  /\ worker = IdleWorker
  /\ exported = NoFile

NextPolygon ==
  \/ \E i \in ImageIds : SelectImage(i)
  \/ \E tool \in {"rectangle", "polygon", "move"} : set_tool(tool)
  \/ \E pos \in PolygonPointer :
       /\ current_tool = "polygon" =>
            Len(polygon_points) < MaxVertices /\ history_index + 1 < MaxHist
       /\ mousePressEvent(pos)
  \/ \E pos \in PolygonPointer : mouseMoveEvent(pos) /\ PanWithin(image_offset')
  \/ mouseReleaseEvent /\ Len(history') <= MaxHist
  \/ mouseDoubleClickEvent
  \/ ReturnKey
  \/ EscapeKey

SpecPolygon == InitPolygon /\ [][NextPolygon]_vars

Polygons(anns) == SelectSeq(anns, LAMBDA a : a.type = "polygon")

Holding(p) ==
  {i \in 1 .. Len(annotations) :
     is_point_in_annotation(p, annotations[i], image_scale, image_offset)}

(* p lies on a corner handle of the selected annotation, a bbox: within     *)
(* handle_size pixels left of or above the corner, or less than handle_size *)
(* pixels right of or below it.                                             *)
OnHandle(p) ==
  \E i \in 1 .. Len(annotations) :
    /\ selected_annotation_id # None
    /\ annotations[i].id = selected_annotation_id
    /\ annotations[i].type = "bbox"
    /\ LET data == annotations[i].data
           tl == image_to_widget(data.x, data.y, image_scale, image_offset)
           br == image_to_widget(data.x + data.width, data.y + data.height,
                                 image_scale, image_offset)
       IN  \E cx \in {tl.x, br.x}, cy \in {tl.y, br.y} :
             /\ cx - handle_size <= p.x /\ p.x < cx + handle_size
             /\ cy - handle_size <= p.y /\ p.y < cy + handle_size

Triangle ==
  [points |-> <<Point(Px(2), Px(2)), Point(Px(22), Px(2)), Point(Px(12), Px(18))>>]

(* A project with a bbox on the first image and a polygon on the second.    *)
DragDb ==
  add_annotation(add_annotation(EmptyDb(DefaultClasses), 1, 0, "person", "bbox", B1),
                 2, 1, "car", "polygon", Triangle)

(* Where the pointer goes: a point inside both shapes and on a handle of    *)
(* the bbox, a second point inside the triangle, and a point off the image. *)
(* How many drags and resizes are carried through.                          *)
MaxModify == 2

DragPointer == {Point(28, 26), Point(32, 28), Point(50, 50)}

InitDrag ==
  /\ db = DragDb
  /\ current_page = 1
  /\ classes = DefaultClasses
  /\ class_list = <<0, 1>>
  /\ current_image_id = None
  /\ annotations = <<>>
  /\ selected_annotation_id = None
  /\ current_class_id = 0
  /\ history = <<>>
  /\ history_index = 0 - 1
  /\ lastOp = Op("init")
  /\ IdleCanvas
  /\ worker = IdleWorker
  /\ exported = NoFile

NextDrag ==
  \/ \E i \in ImageIds : SelectImage(i)
  \/ set_tool("move")
  \/ \E pos \in DragPointer : current_tool = "move" /\ mousePressEvent(pos)
  \/ \E pos \in DragPointer : mouseMoveEvent(pos) /\ PanWithin(image_offset')
  \/ mouseReleaseEvent /\ Len(history') <= MaxModify

SpecDrag == InitDrag /\ [][NextDrag]_vars

(* The selected annotation of the canvas, in a one-element set.             *)
Selected(anns, id) == {anns[i] : i \in {k \in 1 .. Len(anns) : anns[k].id = id}}

InsideImage(a) ==
  IF a.type = "bbox"
  THEN /\ 0 <= a.data.x /\ a.data.x + a.data.width <= ImgW
       /\ 0 <= a.data.y /\ a.data.y + a.data.height <= ImgH
  ELSE \A i \in 1 .. Len(a.data.points) :
         /\ 0 <= a.data.points[i].x /\ a.data.points[i].x <= ImgW
         /\ 0 <= a.data.points[i].y /\ a.data.points[i].y <= ImgH

SameShape(a, b) ==
  IF a.type = "bbox"
  THEN a.data.width = b.data.width /\ a.data.height = b.data.height
  ELSE \A i, j \in 1 .. Len(a.data.points) :
         /\ a.data.points[i].x - a.data.points[j].x
              = b.data.points[i].x - b.data.points[j].x
         /\ a.data.points[i].y - a.data.points[j].y
              = b.data.points[i].y - b.data.points[j].y

(* C14: a move of the pointer while dragging leaves the dragged annotation  *)
(* inside the image with its shape kept: width and height of a bbox, the    *)
(* offsets between the vertices of a polygon.                               *)
C14_DragIsRigid ==
  [][(lastOp'.op = "mouse_move" /\ dragging /\ current_tool = "move")
       => \A a \in Selected(annotations, selected_annotation_id) :
            \A b \in Selected(annotations', selected_annotation_id) :
              InsideImage(b) /\ SameShape(a, b)]_vars

(* C14, the bbox alone: width and height kept, the bbox inside the image.   *)
C14_BboxDragIsRigid ==
  [][(lastOp'.op = "mouse_move" /\ dragging /\ current_tool = "move")
       => \A a \in Selected(annotations, selected_annotation_id) :
            \A b \in Selected(annotations', selected_annotation_id) :
              a.type = "bbox" => InsideImage(b) /\ SameShape(a, b)]_vars

(* The data the store holds for annotation id, in a one-element set.        *)
Stored(d, id) == {a.data : a \in Selected(d.annotations, id)}

(* C15: a release while resizing or dragging stores the data the canvas     *)
(* holds for the selected annotation and leaves resizing and dragging       *)
(* false; a release while panning clears panning and changes neither the    *)
(* annotations of the canvas nor the store.                                 *)
C15_ReleaseCommits ==
  [][lastOp'.op = "mouse_release" =>
       /\ (resizing \/ dragging) =>
            /\ ~resizing' /\ ~dragging'
            /\ annotations' = annotations
            /\ \A a \in Selected(annotations, selected_annotation_id) :
                 Stored(db', selected_annotation_id) = {a.data}
            /\ \A k \in 1 .. Len(db.annotations) :
                 db.annotations[k].id # selected_annotation_id =>
                   db'.annotations[k] = db.annotations[k]
       /\ (panning /\ ~resizing /\ ~dragging) =>
            ~panning' /\ annotations' = annotations /\ db' = db]_vars

(* A release ended a resize of the bbox, after an earlier drag had selected *)
(* it, and the store holds the resized bbox the canvas shows.               *)
C15_Witness ==
  /\ lastOp.op = "mouse_release"
  /\ Len(history) = 2 /\ history[2].action = "modify"
  /\ ~resizing /\ ~dragging
  /\ selected_annotation_id = 1
  /\ \E a \in Selected(annotations, 1) :
       /\ a.data.width # B1.width
       /\ Stored(db, 1) = {a.data}

(* ========================= changing the tool ============================ *)
(* C16: after set_tool no rectangle is being drawn and no polygon vertex is *)
(* left, whatever the tool before and after; so a rectangle is only ever    *)
(* being drawn under the rectangle tool and vertices are only ever held     *)
(* under the polygon tool, both placed since the tool was last set.         *)
C16_SetToolResetsDraw ==
  [][/\ lastOp'.op = "set_tool" => ~drawing' /\ polygon_points' = <<>>
     /\ drawing' => current_tool' = "rectangle"
     /\ polygon_points' # <<>> => current_tool' = "polygon"
     /\ (/\ lastOp'.op \in {"mouse_release", "double_click", "return"}
         /\ Len(db'.annotations) > Len(db.annotations))
          => \/ drawing /\ current_tool = "rectangle"
             \/ polygon_points # <<>> /\ current_tool = "polygon"]_vars

(* The tool was changed while a shape was being drawn, and nothing of the   *)
(* shape is left.                                                           *)
C16_Witness ==
  /\ lastOp.op = "set_tool"
  /\ lastOp.discarded
  /\ ~drawing
  /\ polygon_points = <<>>

(* ============================ the viewport ============================== *)
(* Python floats are taken as exact rationals: a scale is a fraction n/d,   *)
(* and int() cuts the exact value towards zero.                             *)
FracMul(p, q) == Frac(p.n * q.n, p.d * q.d)
FracMax(p, q) == IF FracLeq(p, q) THEN q ELSE p
MinScale == Frac(1, 10)

(* The longest denominator a scale gets.                                    *)
MaxZoomDen == 20

(* zoom_factor = 1.1 if delta > 0 else 0.9                                  *)
zoom_factor(delta) == IF delta > 0 THEN Frac(11, 10) ELSE Frac(9, 10)

(* A scale left as the wheel made it.                                       *)
Unlimited(scale) == scale

(* max(0.1, min(5.0, new_scale))                                            *)
LimitScale(scale) == FracMax(MinScale, FracMin(Frac(MaxScale, 1), scale))

(* int(mouse - img_before * new_scale), one coordinate, where img_before is *)
(* (mouse - offset) / scale.                                                *)
ZoomOffset(mouse, o, scale, new_scale) ==
  TruncDiv(mouse * scale.n * new_scale.d - (mouse - o) * scale.d * new_scale.n,
           scale.n * new_scale.d)

(* wheelEvent: a zoom step about mouse_pos.                                 *)
wheelEvent(mouse_pos, delta) ==
  /\ AnnotatePageShown
  /\ current_image
  /\ LET new_scale == LimitScale(FracMul(image_scale, zoom_factor(delta)))
     IN  /\ new_scale.d <= MaxZoomDen
         /\ image_offset' =
              Point(ZoomOffset(mouse_pos.x, image_offset.x, image_scale, new_scale),
                    ZoomOffset(mouse_pos.y, image_offset.y, image_scale, new_scale))
         /\ image_scale' = new_scale
  /\ lastOp' = [op |-> "wheel", pos |-> mouse_pos]
  /\ UNCHANGED <<db, classes, pageVars, current_image, widget_rect, current_tool,
                 gestureVars, worker, exported>>

(* reset_view, with an image loaded.                                        *)
reset_view ==
  /\ current_image
  /\ image_scale' = reset_view_scale(widget_rect)
  /\ image_offset' = reset_view_offset(widget_rect, reset_view_scale(widget_rect))

(* keyPressEvent of the canvas, the reset_view shortcut.                    *)
ResetViewKey ==
  /\ AnnotatePageShown
  /\ reset_view
  /\ lastOp' = Op("reset_view")
  /\ UNCHANGED <<db, classes, pageVars, current_image, widget_rect, current_tool,
                 gestureVars, worker, exported>>

(* resizeEvent: the widget got the size rect.                               *)
resizeEvent(rect) ==
  /\ AnnotatePageShown
  /\ widget_rect' = rect
  /\ IF current_image
     THEN /\ image_scale' = reset_view_scale(rect)
          /\ image_offset' = reset_view_offset(rect, reset_view_scale(rect))
     ELSE UNCHANGED <<image_scale, image_offset>>
  /\ lastOp' = Op("resize")
  /\ UNCHANGED <<db, classes, pageVars, current_image, current_tool, gestureVars, worker,
                 exported>>

(* The sizes the widget takes: the image and its margin fit, or the widget  *)
(* is small enough for a scale under 0.1.                                   *)
WidgetRects == {WidgetRect, [width |-> 42, height |-> 42]}

(* Where the pointer is for wheel steps and pans.                           *)
ViewPointer == {Point(25, 25), Point(27, 26)}

(* How far from the centred offset the view is followed.                    *)
MaxDrift == 2

ViewWithin(off) ==
  Abs(off.x - ResetOffset.x) <= MaxDrift /\ Abs(off.y - ResetOffset.y) <= MaxDrift

(* The views a behaviour starts from, the move tool chosen: the fitted view *)
(* and the view at the largest scale, where seventeen wheel steps up from   *)
(* scale 1 end.                                                             *)
InitView ==
  /\ db = EmptyDb(DefaultClasses)
  /\ current_page = 1
  /\ classes = DefaultClasses
  /\ class_list = <<0, 1>>
  /\ current_image_id = 1
  /\ annotations = <<>>
  /\ selected_annotation_id = None
  /\ current_class_id = 0
  /\ history = <<>>
  /\ history_index = 0 - 1
  /\ lastOp = Op("load_image")
  /\ current_image = TRUE
  /\ widget_rect = WidgetRect
  /\ \/ /\ image_scale = reset_view_scale(WidgetRect)
        /\ image_offset = reset_view_offset(WidgetRect, reset_view_scale(WidgetRect))
     \/ /\ image_scale = Frac(MaxScale, 1)
        /\ image_offset = Point(20, 20)
  /\ current_tool = "move"
  /\ drawing = FALSE /\ start_point = NoPoint /\ current_point = NoPoint
  /\ dragging = FALSE /\ drag_start = NoPoint /\ drag_start_annotation = NoData
  /\ resizing = FALSE /\ resize_handle = "none" /\ resize_start_rect = NoData
  /\ panning = FALSE /\ pan_start = NoPoint /\ pan_start_offset = NoPoint
  /\ left_button_down = FALSE
  /\ polygon_points = <<>>
  /\ worker = IdleWorker
  /\ exported = NoFile

NextView ==
  \/ \E i \in ImageIds : SelectImage(i)
  \/ \E pos \in ViewPointer, delta \in {0 - 120, 120} :
       wheelEvent(pos, delta) /\ ViewWithin(image_offset')
  \/ ResetViewKey
  \/ \E rect \in WidgetRects : resizeEvent(rect)
  \/ \E pos \in ViewPointer : mousePressEvent(pos)
  \/ \E pos \in ViewPointer : mouseMoveEvent(pos) /\ ViewWithin(image_offset')
  \/ mouseReleaseEvent

SpecView == InitView /\ [][NextView]_vars

(* Image coordinates in fifths of a pixel: whole pixels and points between. *)
ViewCoords == {0, 1, Px(1), Px(5) + 2, Px(20)}

(* C17: for every view and every image point p,                             *)
(* widget_to_image(image_to_widget(p)) is p.                                *)
C17_ViewRoundTrip ==
  current_image =>
    \A x \in ViewCoords, y \in ViewCoords :
      LET w == image_to_widget(x, y, image_scale, image_offset)
      IN  /\ (w.x - image_offset.x) * image_scale.d * SubPixel = x * image_scale.n
          /\ (w.y - image_offset.y) * image_scale.d * SubPixel = y * image_scale.n

(* C17 for whole pixels at scale 1.                                         *)
C17_WholePixelsAtScaleOne ==
  (current_image /\ image_scale = Frac(1, 1)) =>
    \A x \in {Px(0), Px(1), Px(20)} :
      (ToWidget(x, image_scale, image_offset.x) - image_offset.x) * SubPixel = x

(* image_to_widget, in the view (scale2, o2), of the image point that was   *)
(* under the widget coordinate m in the view (scale, o).                    *)
BackUnder(m, o, scale, o2, scale2) ==
  TruncDiv((m - o) * scale.d * scale2.n + o2 * scale.n * scale2.d, scale.n * scale2.d)

(* C18: after a wheel step about a point, the image point that was under    *)
(* it is shown at that very point.                                          *)
C18_ZoomKeepsPivot ==
  [][lastOp'.op = "wheel" =>
       /\ BackUnder(lastOp'.pos.x, image_offset.x, image_scale, image_offset'.x,
                    image_scale') = lastOp'.pos.x
       /\ BackUnder(lastOp'.pos.y, image_offset.y, image_scale, image_offset'.y,
                    image_scale') = lastOp'.pos.y]_vars

(* C19: with an image loaded the scale is positive; after a wheel step it   *)
(* lies between 0.1 and 5.0; a pan changes the offset of the view alone.    *)
C19_ScaleStaysValid ==
  /\ [](current_image => image_scale.n > 0 /\ image_scale.d > 0)
  /\ [][/\ lastOp'.op = "wheel" =>
             FracLeq(MinScale, image_scale') /\ FracLeq(image_scale', Frac(MaxScale, 1))
        /\ (lastOp'.op = "mouse_move" /\ panning) =>
             /\ image_scale' = image_scale
             /\ widget_rect' = widget_rect
             /\ annotations' = annotations
             /\ db' = db]_vars

(* A wheel step from the scale 1/12 of a narrow widget ended at 0.1, and a  *)
(* pan has moved the view since.                                            *)
C19_Witness ==
  /\ image_scale = MinScale
  /\ widget_rect # WidgetRect
  /\ lastOp.op = "mouse_move"
  /\ panning
  /\ image_offset # pan_start_offset

(* ====================== batch processing by region ====================== *)
(* A project with a bbox on the first image and, on the second, the same    *)
(* bbox under the other class and a polygon.                                *)
BatchDb ==
  add_annotation(
    add_annotation(
      add_annotation(EmptyDb(DefaultClasses), 1, 0, "person", "bbox", B1),
      2, 1, "car", "bbox", B1),
    2, 0, "person", "polygon", Triangle)

(* The points picked on the canvas: inside both shapes; on the far corner   *)
(* of the bbox; one outside both with one inside the polygon alone; outside *)
(* both.                                                                    *)
BatchPoints ==
  {<<Point(5, 5)>>, <<Point(12, 10)>>, <<Point(22, 18), Point(15, 12)>>,
   <<Point(22, 18)>>}

BatchRanges == {<<0, 0>>, <<1, 1>>, <<0, 1>>}

BatchClassLists == {{0}, {0, 1}}

(* What the batch dialog hands over.                                        *)
BatchDialogConfigs ==
  {[points |-> pts, start_idx |-> r[1], end_idx |-> r[2], operation |-> "delete",
    target_classes |-> cs, source_classes |-> {}, target_class |-> None] :
     pts \in BatchPoints, r \in BatchRanges, cs \in BatchClassLists}
  \cup
  {[points |-> pts, start_idx |-> r[1], end_idx |-> r[2], operation |-> "modify",
    target_classes |-> {}, source_classes |-> cs, target_class |-> t] :
     pts \in BatchPoints, r \in BatchRanges, cs \in BatchClassLists, t \in {0, 1}}

InitBatch ==
  /\ db = BatchDb
  /\ current_page = 1
  /\ classes = DefaultClasses
  /\ class_list = <<0, 1>>
  /\ current_image_id = None
  /\ annotations = <<>>
  /\ selected_annotation_id = None
  /\ current_class_id = 0
  /\ history = <<>>
  /\ history_index = 0 - 1
  /\ lastOp = Op("init")
  /\ IdleCanvas
  /\ worker = IdleWorker
  /\ exported = NoFile

(* execute_batch_process that does not run to its end.  The loop stops      *)
(* before the image stop.image of the range: by the break on                *)
(* progress.wasCanceled(), after which the result is reported and the       *)
(* annotations of the canvas are loaded again, or by an exception of the    *)
(* store (get_image_annotations raising), which leaves the loop for the     *)
(* except clause around it: an error box, no report, no reload.             *)
execute_batch_process_stopped(config, stop) ==
  LET image_ids == [k \in 1 .. (stop.image - config.start_idx - 1) |->
                      config.start_idx + k]
      res == BatchImages([d |-> db, processed |-> 0, modified |-> 0], config, image_ids)
  IN  /\ AnnotatePageShown
      /\ config.start_idx + 1 <= stop.image /\ stop.image <= config.end_idx + 1
      /\ db' = res.d
      /\ IF stop.kind = "cancel"
         THEN LoadAnnotations(res.d)
         ELSE UNCHANGED <<annotations, selected_annotation_id>>
      /\ lastOp' = [op |-> "batch_stopped", config |-> config, stop |-> stop,
                    reported |-> stop.kind = "cancel"]
      /\ UNCHANGED <<classes, class_list, current_image_id, current_class_id, history,
                     history_index, otherVars>>

(* How a run is stopped: cancelled or failing, at an image of the list.     *)
BatchStops == {[kind |-> k, image |-> i] : k \in {"cancel", "error"}, i \in ImageIds}

NextBatch ==
  \/ \E i \in ImageIds : SelectImage(i)
  \/ \E config \in BatchDialogConfigs : execute_batch_process(config)
  \/ \E config \in BatchDialogConfigs, stop \in BatchStops :
       execute_batch_process_stopped(config, stop)

SpecBatch == InitBatch /\ [][NextBatch]_vars

(* The geometry of annotation a holds the image point p: the bbox with its  *)
(* edges, the polygon by the even-odd rule.                                 *)
GeometryHolds(a, p) ==
  IF a.type = "bbox"
  THEN /\ a.data.x <= Px(p.x) /\ Px(p.x) <= a.data.x + a.data.width
       /\ a.data.y <= Px(p.y) /\ Px(p.y) <= a.data.y + a.data.height
  ELSE point_in_polygon(Px(p.x), Px(p.y), a.data.points)

(* The batch operation of config applies to annotation a.                   *)
BatchApplies(config, a) ==
  /\ config.start_idx + 1 <= a.image_id /\ a.image_id <= config.end_idx + 1
  /\ \E k \in 1 .. Len(config.points) : GeometryHolds(a, config.points[k])
  /\ a.class_id \in (IF config.operation = "delete" THEN config.target_classes
                     ELSE config.source_classes)

(* C20: a batch operation deletes, or gives the target class to, exactly    *)
(* the annotations of the images in the range that hold a selected point    *)
(* and whose class is in the class list; every other annotation stays as it *)
(* was.                                                                     *)
C20_BatchRegion ==
  [][lastOp'.op = "batch_process" =>
       LET config == lastOp'.config
       IN  db'.annotations =
             IF config.operation = "delete"
             THEN SelectSeq(db.annotations, LAMBDA a : ~BatchApplies(config, a))
             ELSE [i \in 1 .. Len(db.annotations) |->
                     IF BatchApplies(config, db.annotations[i])
                     THEN [db.annotations[i] EXCEPT !.class_id = config.target_class]
                     ELSE db.annotations[i]]]_vars

(* A batch over the second image with two points, one of them inside the    *)
(* polygon alone, has given the polygon the other class and left both       *)
(* bboxes as they were.                                                     *)
C20_Witness ==
  /\ lastOp.op = "batch_process"
  /\ lastOp.config.operation = "modify"
  /\ Len(lastOp.config.points) = 2
  /\ lastOp.config.start_idx = 1
  /\ Len(db.annotations) = 3
  /\ db.annotations[3].type = "polygon" /\ db.annotations[3].class_id = 1
  /\ db.annotations[1] = BatchDb.annotations[1]
  /\ db.annotations[2] = BatchDb.annotations[2]

(* The annotations after the batch operation of config has been applied on  *)
(* the images of the set image_ids and on no other.                         *)
AfterBatch(config, anns, image_ids) ==
  IF config.operation = "delete"
  THEN SelectSeq(anns, LAMBDA a : ~(a.image_id \in image_ids /\ BatchApplies(config, a)))
  ELSE [i \in 1 .. Len(anns) |->
          IF anns[i].image_id \in image_ids /\ BatchApplies(config, anns[i])
          THEN [anns[i] EXCEPT !.class_id = config.target_class]
          ELSE anns[i]]

BatchRange(config) == (config.start_idx + 1) .. (config.end_idx + 1)

(* C21: a failure on one image of a batch run is caught and counted: the    *)
(* other images of the range are processed all the same and the counts are  *)
(* reported; a cancelled run leaves the images before the cancellation      *)
(* processed and the later ones as they were.                               *)
C21_BatchFailuresLocal ==
  [][lastOp'.op = "batch_stopped" =>
       LET config == lastOp'.config
           stop == lastOp'.stop
       IN  IF stop.kind = "error"
           THEN /\ lastOp'.reported
                /\ db'.annotations =
                     AfterBatch(config, db.annotations, BatchRange(config) \ {stop.image})
           ELSE db'.annotations =
                  AfterBatch(config, db.annotations,
                             {i \in BatchRange(config) : i < stop.image})]_vars

(* C21, the cancelled run alone.                                            *)
C21_CancelKeepsProcessed ==
  [][(lastOp'.op = "batch_stopped" /\ lastOp'.stop.kind = "cancel") =>
       /\ lastOp'.reported
       /\ db'.annotations =
            AfterBatch(lastOp'.config, db.annotations,
                       {i \in BatchRange(lastOp'.config) : i < lastOp'.stop.image})]_vars

(* ======================== the YOLO label files ========================== *)
(* A label file is a list of lines and a line the list of its fields.  A    *)
(* field is a whole number (kind "int", v its value), a decimal number      *)
(* (kind "dec", v its value in millionths) or a text that is no number      *)
(* (kind "text").  The pixel values of a bbox written to a file are in      *)
(* units of 1 / YoloGrid pixel; decoded pixel values are in units of        *)
(* 1 / YoloUnit pixel, which holds the product of a six-decimal number, a   *)
(* half and a whole pixel size exactly.                                     *)
Micro == 1000000
YoloUnit == 2 * Micro
YoloGrid == 2

IntField(n) == [kind |-> "int", v |-> n]
DecField(millionths) == [kind |-> "dec", v |-> millionths]
TextField == [kind |-> "text", v |-> 0]

(* int(part) and float(part) raise ValueError on a field they cannot read.  *)
IntRaises(part) == part.kind # "int"
FloatRaises(part) == part.kind = "text"
FloatOf(part) == IF part.kind = "int" THEN part.v * Micro ELSE part.v

(* The digits of num / den: k more decimal digits after the quotient q and  *)
(* the remainder r.                                                         *)
RECURSIVE LongDivision(_, _, _, _)
LongDivision(q, r, den, k) ==
  IF k = 0 THEN [q |-> q, r |-> r]
  ELSE LongDivision(q * 10 + ((r * 10) \div den), (r * 10) % den, den, k - 1)

(* f"{num / den:.6f}": the quotient rounded to the nearest millionth.  A    *)
(* quotient half way between two millionths is rounded by the binary value  *)
(* the division left, which is not computed here: HalfWay tells these       *)
(* quotients, and no bbox of YoloBoxesOf has one.                           *)
Format6(num, den) ==
  LET s == LongDivision(num \div den, num % den, den, 6)
  IN  DecField(IF 2 * s.r >= den THEN s.q + 1 ELSE s.q)

HalfWay(num, den) == 2 * LongDivision(num \div den, num % den, den, 6).r = den

(* The line export_annotations writes in the YOLO format for a bbox of an   *)
(* image of the size image.width x image.height.                            *)
yolo_export_line(class_id, data, image) ==
  <<IntField(class_id),
    Format6(2 * data.x + data.width, 2 * image.width * YoloGrid),
    Format6(2 * data.y + data.height, 2 * image.height * YoloGrid),
    Format6(data.width, image.width * YoloGrid),
    Format6(data.height, image.height * YoloGrid)>>

(* The bbox _parse_yolo_file makes of the fields 1 .. 4 of a line.          *)
yolo_bbox(parts, image_info) ==
  LET x_center == FloatOf(parts[2])
      y_center == FloatOf(parts[3])
      width == FloatOf(parts[4])
      height == FloatOf(parts[5])
  IN  [x |-> (2 * x_center - width) * image_info.width,
       y |-> (2 * y_center - height) * image_info.height,
       width |-> 2 * width * image_info.width,
       height |-> 2 * height * image_info.height]

(* The polygon points of a segment line: the pairs from the field 5 on, a   *)
(* last field without a partner left out.                                   *)
yolo_points(parts, image_info) ==
  [j \in 1 .. ((Len(parts) - 5) \div 2) |->
     [x |-> 2 * FloatOf(parts[4 + 2 * j]) * image_info.width,
      y |-> 2 * FloatOf(parts[5 + 2 * j]) * image_info.height]]

(* One pass of the loop of _parse_yolo_file over the fields of a line:      *)
(* whether it raised, and the annotations it appended, each with the type   *)
(* import_yolo_annotations gives it.                                        *)
parse_yolo_line(project_task, parts, image_info) ==
  LET nothing == [raised |-> FALSE, anns |-> <<>>]
      raise == [raised |-> TRUE, anns |-> <<>>]
      one(type, data) ==
        [raised |-> FALSE,
         anns |-> <<[class_id |-> parts[1].v, type |-> type, data |-> data]>>]
  IN  IF Len(parts) < 1 THEN nothing
      ELSE IF IntRaises(parts[1]) THEN raise
      ELSE IF project_task = "classify"
           THEN one("bbox", [class_id |-> parts[1].v])
      ELSE IF Len(parts) >= 5
           THEN IF \E k \in 2 .. 5 : FloatRaises(parts[k]) THEN raise
                ELSE IF project_task = "segment" /\ Len(parts) > 5
                     THEN IF \E k \in 6 .. (5 + 2 * ((Len(parts) - 5) \div 2)) :
                               FloatRaises(parts[k])
                          THEN raise
                          ELSE one("polygon", [points |-> yolo_points(parts, image_info)])
                     ELSE one("bbox", yolo_bbox(parts, image_info))
      ELSE nothing

(* _parse_yolo_file over the lines of a file: the loop stands inside one    *)
(* try, so the first line that raises ends it and the annotations appended  *)
(* before are returned.                                                     *)
RECURSIVE parse_yolo_lines(_, _, _)
parse_yolo_lines(project_task, lines, image_info) ==
  IF lines = <<>> THEN <<>>
  ELSE LET first == parse_yolo_line(project_task, Head(lines), image_info)
       IN  IF first.raised THEN <<>>
           ELSE first.anns \o parse_yolo_lines(project_task, Tail(lines), image_info)

(* Image sizes and bboxes inside them, in units of 1 / YoloGrid pixel.      *)
YoloImageSizes == {[width |-> 640, height |-> 480], [width |-> 1920, height |-> 1080]}

YoloBoxes ==
  {[x |-> x, y |-> y, width |-> w, height |-> h] :
     x \in {0, 2, 11, 200}, y \in {0, 7, 100}, w \in {10, 13, 26, 240}, h \in {10, 19, 80}}

YoloBoxesOf(image) ==
  {data \in YoloBoxes :
     /\ ~HalfWay(2 * data.x + data.width, 2 * image.width * YoloGrid)
     /\ ~HalfWay(2 * data.y + data.height, 2 * image.height * YoloGrid)
     /\ ~HalfWay(data.width, image.width * YoloGrid)
     /\ ~HalfWay(data.height, image.height * YoloGrid)}

(* A bbox is exported to a label file and the file is parsed again.         *)
YoloRoundTrip(data, image) ==
  /\ current_page = 1
  /\ lastOp' = [op |-> "yolo_round_trip", data |-> data, image |-> image,
                result |-> parse_yolo_lines("detect",
                                            <<yolo_export_line(0, data, image)>>, image)]
  /\ UNCHANGED <<db, current_page, classes, pageVars, otherVars>>

(* Lines of a label file for an image of 24 x 20 pixels: polygons of three  *)
(* and of two points, a bbox, a line of three fields, a line whose class    *)
(* is no number, a line with a coordinate that is no number, a blank line.  *)
YoloImage == [width |-> 24, height |-> 20]
Tenths(n) == DecField(n * (Micro \div 10))
SegLine3 == <<IntField(0), Tenths(1), Tenths(1), Tenths(9), Tenths(1), Tenths(5), Tenths(9)>>
SegLine2 == <<IntField(1), Tenths(2), Tenths(2), Tenths(8), Tenths(6)>>
BoxLine == <<IntField(1), Tenths(5), Tenths(5), Tenths(4), Tenths(6)>>
ShortLine == <<IntField(0), Tenths(5), Tenths(5)>>
BadClassLine == <<TextField, Tenths(5), Tenths(5), Tenths(4), Tenths(6)>>
BadCoordLine == <<IntField(0), Tenths(5), TextField, Tenths(4), Tenths(6)>>
BlankLine == <<>>

YoloLines == {SegLine3, SegLine2, BoxLine, ShortLine, BadClassLine, BadCoordLine, BlankLine}

MaxLines == 3
YoloFiles == UNION {[1 .. n -> YoloLines] : n \in 0 .. MaxLines}

YoloTasks == {"detect", "segment", "classify"}

(* A label file of the labels folder is parsed for an image.                *)
ParseYoloFile(project_task, lines) ==
  /\ current_page = 1
  /\ lastOp' = [op |-> "parse_yolo", task |-> project_task, lines |-> lines,
                result |-> parse_yolo_lines(project_task, lines, YoloImage)]
  /\ UNCHANGED <<db, current_page, classes, pageVars, otherVars>>

InitYolo ==
  /\ db = EmptyDb(DefaultClasses)
  /\ current_page = 1
  /\ classes = DefaultClasses
  /\ class_list = <<0, 1>>
  /\ current_image_id = None
  /\ annotations = <<>>
  /\ selected_annotation_id = None
  /\ current_class_id = 0
  /\ history = <<>>
  /\ history_index = 0 - 1
  /\ lastOp = Op("init")
  /\ IdleCanvas
  /\ worker = IdleWorker
  /\ exported = NoFile

NextYolo ==
  \/ \E image \in YoloImageSizes : \E data \in YoloBoxesOf(image) : YoloRoundTrip(data, image)
  \/ \E project_task \in YoloTasks, lines \in YoloFiles : ParseYoloFile(project_task, lines)

SpecYolo == InitYolo /\ [][NextYolo]_vars

(* A decoded pixel value is within a thousandth of a pixel of the value    *)
(* that was written.                                                        *)
WithinThousandth(decoded, written) ==
  Abs(decoded * YoloGrid - written * YoloUnit) * 1000 <= YoloUnit * YoloGrid

RoundTripExact(data, result) ==
  /\ Len(result) = 1
  /\ result[1].type = "bbox"
  /\ WithinThousandth(result[1].data.x, data.x)
  /\ WithinThousandth(result[1].data.y, data.y)
  /\ WithinThousandth(result[1].data.width, data.width)
  /\ WithinThousandth(result[1].data.height, data.height)

(* C22: a bbox inside an image of the size (W, H), written as a YOLO line   *)
(* with six decimals and decoded with the same W and H, comes back with x,  *)
(* y, width and height each within 1e-3 pixel of what they were.            *)
C22_YoloRoundTrip ==
  lastOp.op = "yolo_round_trip" => RoundTripExact(lastOp.data, lastOp.result)

(* C22 for the images of 640 x 480 pixels alone.                            *)
C22_SmallImageRoundTrip ==
  (lastOp.op = "yolo_round_trip" /\ lastOp.image.width = 640)
    => RoundTripExact(lastOp.data, lastOp.result)

(* A line the format calls well formed: a class id and four fields or more  *)
(* after it, every one a number.                                            *)
WellFormed(parts) ==
  /\ Len(parts) >= 5
  /\ ~IntRaises(parts[1])
  /\ \A k \in 2 .. Len(parts) : ~FloatRaises(parts[k])

(* What the well-formed lines of a file decode to, line by line.            *)
DecodedWellFormed(project_task, lines) ==
  LET good == SelectSeq(lines, WellFormed)
  IN  Concat([i \in 1 .. Len(good) |->
                parse_yolo_line(project_task, good[i], YoloImage).anns])

(* C23: a malformed line of a YOLO label file (too few fields, a class id   *)
(* or a coordinate that is no number) is skipped by itself: exactly the     *)
(* well-formed lines of the file, before and after it, are decoded.         *)
C23_MalformedLinesSkipped ==
  (lastOp.op = "parse_yolo" /\ lastOp.task # "classify")
    => lastOp.result = DecodedWellFormed(lastOp.task, lastOp.lines)

(* C23 for the files whose malformed lines have too few fields and nothing  *)
(* else wrong.                                                              *)
C23_ShortLinesSkipped ==
  (/\ lastOp.op = "parse_yolo" /\ lastOp.task # "classify"
   /\ \A i \in 1 .. Len(lastOp.lines) :
        ~parse_yolo_line(lastOp.task, lastOp.lines[i], YoloImage).raised)
    => lastOp.result = DecodedWellFormed(lastOp.task, lastOp.lines)

(* The polygon the segmentation format gives a line: the pairs after the    *)
(* class id, in order, scaled by the image size.                            *)
SegmentPolygon(parts, image_info) ==
  [j \in 1 .. ((Len(parts) - 1) \div 2) |->
     [x |-> 2 * FloatOf(parts[2 * j]) * image_info.width,
      y |-> 2 * FloatOf(parts[2 * j + 1]) * image_info.height]]

(* C24: in a segment project a line "class_id x1 y1 ... xn yn" decodes to   *)
(* a polygon of the class with all n pairs in order, (xi * W, yi * H), and  *)
(* none of its fields is taken for the centre or the size of a bbox.        *)
C24_SegmentLineDecodes ==
  (/\ lastOp.op = "parse_yolo" /\ lastOp.task = "segment"
   /\ Len(lastOp.lines) = 1
   /\ WellFormed(lastOp.lines[1]) /\ Len(lastOp.lines[1]) % 2 = 1)
    => lastOp.result =
         <<[class_id |-> lastOp.lines[1][1].v, type |-> "polygon",
            data |-> [points |-> SegmentPolygon(lastOp.lines[1], YoloImage)]]>>

(* C24, what does hold: a line of more than five fields becomes a polygon   *)
(* of the pairs that follow the first four coordinates.                     *)
C24_PointsAfterFourFields ==
  (/\ lastOp.op = "parse_yolo" /\ lastOp.task = "segment"
   /\ Len(lastOp.lines) = 1
   /\ WellFormed(lastOp.lines[1]) /\ Len(lastOp.lines[1]) > 5)
    => /\ Len(lastOp.result) = 1
       /\ lastOp.result[1].type = "polygon"
       /\ lastOp.result[1].data.points =
            SubSeq(SegmentPolygon(lastOp.lines[1], YoloImage), 3,
                   (Len(lastOp.lines[1]) - 1) \div 2)

(* ======================== the VOC import, decoded ======================= *)
(* The <object> elements of a file that have a <name> and a <bndbox> of     *)
(* four integers, and among them those the predicate named picks.           *)
VocValid(objs) == SelectSeq(objs, LAMBDA o : o.name # "" /\ o.box = "ok")

ClassNamesOf(cls) == {cls[i].name : i \in 1 .. Len(cls)}

(* The annotation got is the bbox of the object obj, with the class id the  *)
(* project before the import (cls) has for its name, or, for a name the     *)
(* project did not have, with the id of a class of that name created by the *)
(* import (cls_after) and not the id of a class there was.                  *)
VocDecodes(got, obj, cls, cls_after) ==
  /\ got.type = "bbox"
  /\ got.data = Bbox(obj.bndbox.xmin, obj.bndbox.ymin,
                     obj.bndbox.xmax - obj.bndbox.xmin,
                     obj.bndbox.ymax - obj.bndbox.ymin)
  /\ got.class_name = obj.name
  /\ IF obj.name \in ClassNamesOf(cls)
     THEN got.class_id = class_map_get(cls, obj.name, None)
     ELSE /\ got.class_id \notin ClassIds(cls)
          /\ \E k \in 1 .. Len(cls_after) :
               cls_after[k].id = got.class_id /\ cls_after[k].name = obj.name

(* The files of a VOC import that were imported into an image hold, after   *)
(* it, the decoded objects picked by known_only (all the valid ones, or     *)
(* those of a name the project has).                                        *)
VocImported(d, d_after, op, known_only) ==
  \A f \in 1 .. Len(op.files) :
    LET file == op.files[f]
        imported_here ==
          /\ file.image # None
          /\ ~SkipExisting(get_image_annotations(d, file.image), op.overwrite)
        want == VocValid(file.objs)
        got == IF imported_here THEN get_image_annotations(d_after, file.image) ELSE <<>>
    IN  imported_here =>
          /\ Len(got) = Len(want)
          /\ \A k \in 1 .. Len(want) :
               (known_only => want[k].name \in ClassNamesOf(d.classes))
                 => VocDecodes(got[k], want[k], d.classes, d_after.classes)

(* C25: a VOC import makes of every <object> with a <name> and a <bndbox>   *)
(* the bbox {x: xmin, y: ymin, width: xmax - xmin, height: ymax - ymin}, an *)
(* object without <bndbox> is skipped and the others are not affected; the  *)
(* class id is the project's id for the name, and a name the project does   *)
(* not have gets the id of a newly created class, not an existing one's.    *)
C25_VocDecode ==
  [][lastOp'.op = "import_voc" => VocImported(db, db', lastOp', FALSE)]_vars

(* C25 for the objects whose name the project has.                          *)
C25_VocDecodeKnownNames ==
  [][lastOp'.op = "import_voc" => VocImported(db, db', lastOp', TRUE)]_vars

(* ==================== the batch labelling thread's run ================== *)
(* BatchLabelingThread as the record worker: pc is where run() stands,      *)
(* images the list it was given (ids; missing holds the ids whose file is   *)
(* not on disk), i the index of the for loop, _is_running and _is_paused    *)
(* the two flags.  started lists the images whose processing began and      *)
(* completed the batch_completed signals emitted; stopped, paused_at_stop,  *)
(* in_progress_at_stop, started_at_stop, pauses and failed record what      *)
(* happened to the thread.                                                  *)
StopPausedOnly(w) == [w EXCEPT !._is_paused = FALSE]

(* BatchLabelingThread.stop *)
stop(w) == [w EXCEPT !._is_running = FALSE, !._is_paused = FALSE]

(* BatchLabelingThread.pause and resume *)
pause(w) == [w EXCEPT !._is_paused = TRUE]
resume(w) == [w EXCEPT !._is_paused = FALSE]

ThreadAlive == worker.pc \notin {"idle", "ended"}

ThreadUnchanged == UNCHANGED <<current_page, classes, pageVars, canvasVars, exported>>

(* BatchLabelingManager.start_batch_processing: the thread is created with  *)
(* both flags at their initial values and started.                          *)
start_batch_processing(images, missing) ==
  /\ AnnotatePageShown
  /\ worker.pc = "idle"
  /\ worker' = [pc |-> "loop", images |-> images, missing |-> missing, i |-> 1,
                _is_running |-> TRUE, _is_paused |-> FALSE,
                started |-> <<>>, completed |-> <<>>,
                stopped |-> FALSE, paused_at_stop |-> FALSE,
                in_progress_at_stop |-> FALSE, started_at_stop |-> 0,
                pauses |-> 0, failed |-> FALSE]
  /\ lastOp' = OtherOp
  /\ UNCHANGED db /\ ThreadUnchanged

(* The calls of the user interface's thread on a thread that runs.          *)
MaxPauses == 2

PauseThread ==
  /\ ThreadAlive
  /\ worker.pauses < MaxPauses
  /\ worker' = [pause(worker) EXCEPT !.pauses = @ + 1]
  /\ lastOp' = OtherOp
  /\ UNCHANGED db /\ ThreadUnchanged

ResumeThread ==
  /\ ThreadAlive
  /\ worker._is_paused
  /\ worker' = resume(worker)
  /\ lastOp' = OtherOp
  /\ UNCHANGED db /\ ThreadUnchanged

StopThread ==
  /\ ThreadAlive
  /\ ~worker.stopped
  /\ worker' = [stop(worker) EXCEPT !.stopped = TRUE,
                                    !.paused_at_stop = worker._is_paused,
                                    !.in_progress_at_stop = (worker.pc = "process"),
                                    !.started_at_stop = Len(worker.started)]
  /\ lastOp' = OtherOp
  /\ UNCHANGED db /\ ThreadUnchanged

(* run(): the head of the for loop and the first look at _is_running.       *)
LoopTop ==
  /\ worker.pc = "loop"
  /\ worker' = [worker EXCEPT !.pc = IF worker.i > Len(worker.images) \/ ~worker._is_running
                                     THEN "finish" ELSE "pause_check"]
  /\ lastOp' = OtherOp
  /\ UNCHANGED db /\ ThreadUnchanged

(* while self._is_paused *)
PauseCheck ==
  /\ worker.pc = "pause_check"
  /\ worker' = [worker EXCEPT !.pc = IF worker._is_paused THEN "sleep" ELSE "check"]
  /\ lastOp' = OtherOp
  /\ UNCHANGED db /\ ThreadUnchanged

(* time.sleep(0.1), then the break out of the pause loop once stopped.      *)
Sleep ==
  /\ worker.pc = "sleep"
  /\ worker' = [worker EXCEPT !.pc = IF ~worker._is_running THEN "check" ELSE "pause_check"]
  /\ lastOp' = OtherOp
  /\ UNCHANGED db /\ ThreadUnchanged

(* The look at _is_running after the pause loop.                            *)
RunningCheck ==
  /\ worker.pc = "check"
  /\ worker' = [worker EXCEPT !.pc = IF ~worker._is_running THEN "finish" ELSE "process"]
  /\ lastOp' = OtherOp
  /\ UNCHANGED db /\ ThreadUnchanged

(* The body of the loop for the image at i: an image whose file is missing  *)
(* is passed over; the detector finds dets, which are saved with overwrite, *)
(* or raises, which ends the loop in the except clause.                     *)
ProcessImage(dets, raises) ==
  /\ worker.pc = "process"
  /\ LET image_id == worker.images[worker.i]
     IN  IF image_id \in worker.missing
         THEN /\ worker' = [worker EXCEPT !.pc = "loop", !.i = @ + 1]
              /\ UNCHANGED db
         ELSE IF raises
         THEN /\ worker' = [worker EXCEPT !.pc = "except", !.failed = TRUE,
                                          !.started = Append(@, image_id)]
              /\ UNCHANGED db
         ELSE /\ worker' = [worker EXCEPT !.pc = "loop", !.i = @ + 1,
                                          !.started = Append(@, image_id)]
              /\ db' = IF dets # <<>> THEN save_annotations(db, dets, image_id, TRUE) ELSE db
  /\ lastOp' = OtherOp
  /\ ThreadUnchanged

(* The end of run(): batch_completed is emitted, with success as            *)
(* _is_running stands, or without from the except clause.                   *)
Complete ==
  /\ worker.pc \in {"finish", "except"}
  /\ worker' = [worker EXCEPT !.pc = "ended",
                              !.completed = Append(@, worker.pc = "finish" /\ worker._is_running)]
  /\ lastOp' = OtherOp
  /\ UNCHANGED db /\ ThreadUnchanged

ThreadImageLists == {<<1>>, <<NumImages>>, <<1, NumImages>>, <<NumImages, 1>>}
MissingFiles == {{}, {1}}

InitThread ==
  /\ db \in {EmptyDb(DefaultClasses), Existing1}
  /\ current_page = 1
  /\ classes = DefaultClasses
  /\ class_list = <<0, 1>>
  /\ current_image_id = None
  /\ annotations = <<>>
  /\ selected_annotation_id = None
  /\ current_class_id = 0
  /\ history = <<>>
  /\ history_index = 0 - 1
  /\ lastOp = Op("init")
  /\ IdleCanvas
  /\ worker = IdleWorker
  /\ exported = NoFile

ThreadRun ==
  \/ LoopTop
  \/ PauseCheck
  \/ Sleep
  \/ RunningCheck
  \/ \E dets \in PageDetections, raises \in BOOLEAN : ProcessImage(dets, raises)
  \/ Complete

NextThread ==
  \/ \E images \in ThreadImageLists, missing \in MissingFiles :
       start_batch_processing(images, missing)
  \/ PauseThread
  \/ ResumeThread
  \/ StopThread
  \/ ThreadRun

SpecThread == InitThread /\ [][NextThread]_vars

(* The thread runs while it can (the scheduler lets a started QThread       *)
(* run), and a pause is followed by a resume.                               *)
SpecThreadFair == SpecThread /\ WF_vars(ThreadRun) /\ WF_vars(ResumeThread)

(* The images of the list whose file is there, in the order of the list.    *)
ImagesOnDisk(w) == SelectSeq(w.images, LAMBDA i : i \notin w.missing)

ModesOn == {m \in {"drawing", "dragging", "resizing", "panning"} :
              \/ m = "drawing" /\ drawing
              \/ m = "dragging" /\ dragging
              \/ m = "resizing" /\ resizing
              \/ m = "panning" /\ panning}

(* C27: in every reachable state, a tool selected while a button is held    *)
(* included, at most one of drawing, dragging, resizing and panning is      *)
(* true, and after the release of the button, with no button held, all      *)
(* four are false.                                                          *)
C27_ModesExclusive ==
  /\ [](Cardinality(ModesOn) <= 1)
  /\ [](~left_button_down => ModesOn = {})
  /\ [][lastOp'.op = "mouse_release" => (ModesOn = {})']_vars

(* A bbox is being dragged, the button still held, and the rectangle tool   *)
(* was selected meanwhile: dragging is the one mode that is on.             *)
C27_Witness ==
  /\ left_button_down
  /\ current_tool = "rectangle"
  /\ dragging
  /\ ModesOn = {"dragging"}

(* ============== the shape in progress across an image switch ============ *)
(* C28: after the page has loaded an image the polygon's working list is    *)
(* empty and no rectangle draw, drag or resize is in progress, so that      *)
(* vertices placed over one image are never committed as an annotation of   *)
(* another image.                                                           *)
C28_LoadDiscardsDrawing ==
  [][lastOp'.op = "load_image" =>
       (polygon_points = <<>> /\ ~drawing /\ ~dragging /\ ~resizing)']_vars

(* ============================ create, delete, undo ====================== *)
(* The page's handlers for the canvas's annotation_created and              *)
(* annotation_deleted signals.                                              *)
CreateAnnotation(data) ==
  /\ AnnotatePageShown
  /\ on_annotation_created([type |-> "bbox", class_id |-> current_class_id, data |-> data])
  /\ lastOp' = Op("create")
  /\ UNCHANGED otherVars

DeleteAnnotation(k) ==
  /\ AnnotatePageShown
  /\ k \in 1 .. Len(annotations)
  /\ on_annotation_deleted(annotations[k].id)
  /\ lastOp' = Op("delete")
  /\ UNCHANGED otherVars

(* The project before the first action: two images, no annotation.          *)
UndoBase == EmptyDb(DefaultClasses)

InitUndo ==
  /\ db = UndoBase
  /\ current_page = 1
  /\ classes = DefaultClasses
  /\ class_list = <<0, 1>>
  /\ current_image_id = None
  /\ annotations = <<>>
  /\ selected_annotation_id = None
  /\ current_class_id = 0
  /\ history = <<>>
  /\ history_index = 0 - 1
  /\ lastOp = Op("init")
  /\ IdleCanvas
  /\ worker = IdleWorker
  /\ exported = NoFile

(* Runs of up to MaxActions creations and deletions followed by undos: no   *)
(* action is taken once one has been undone.                                *)
MaxActions == 2

NoneUndone == history_index = Len(history) - 1

NextUndo ==
  \/ \E i \in ImageIds : SelectImage(i)
  \/ \E r \in 1 .. MaxClasses : OnClassSelected(r)
  \/ \E data \in {B1, B2} :
       NoneUndone /\ Len(history) < MaxActions /\ CreateAnnotation(data)
  \/ \E k \in 1 .. MaxActions :
       NoneUndone /\ Len(history) < MaxActions /\ DeleteAnnotation(k)
  \/ Undo

SpecUndo == InitUndo /\ [][NextUndo]_vars

(* What an annotation is, its row id left out.                              *)
Content(a) == [image_id |-> a.image_id, class_id |-> a.class_id, type |-> a.type,
               data |-> a.data]

SameAnnotations(a, b) ==
  /\ Len(a) = Len(b)
  /\ \A i \in 1 .. Len(a) :
       Cardinality({j \in 1 .. Len(a) : Content(a[j]) = Content(a[i])})
         = Cardinality({j \in 1 .. Len(b) : Content(b[j]) = Content(a[i])})

(* C29: k creations and deletions followed by k undos leave the annotations *)
(* (class, type, geometry) that were there before the k actions, so that    *)
(* create A, delete A, undo, undo ends with A absent; the history holds at  *)
(* most 50 records and -1 <= history_index < len(history).                  *)
C29_UndoRestores ==
  /\ (history # <<>> /\ history_index = 0 - 1)
       => SameAnnotations(db.annotations, UndoBase.annotations)
  /\ Len(history) <= HistoryLimit
  /\ 0 - 1 <= history_index /\ history_index < Len(history)

(* C29 for the runs of creations alone, and the bounds of the history.      *)
C29_UndoOfCreations ==
  /\ (/\ history # <<>> /\ history_index = 0 - 1
      /\ \A k \in 1 .. Len(history) : history[k].action = "create")
       => SameAnnotations(db.annotations, UndoBase.annotations)
  /\ Len(history) <= HistoryLimit
  /\ 0 - 1 <= history_index /\ history_index < Len(history)

(* ========================= the canvas's selection ======================= *)
(* apply_annotation_changes: the selected annotation is stored again, under *)
(* a new row id, with the class the attribute panel shows; the panel lists  *)
(* the project's classes.                                                   *)
apply_annotation_changes(class_id) ==
  /\ AnnotatePageShown
  /\ selected_annotation_id # None
  /\ AnnIndex(annotations, selected_annotation_id) # None
  /\ class_id \in ClassIds(classes)
  /\ LET i == AnnIndex(annotations, selected_annotation_id)
         annotation == annotations[i]
         class_name == PageClassName(classes, class_id)
         d1 == add_annotation(delete_annotation(db, annotation.id), current_image_id,
                              class_id, class_name, annotation.type, annotation.data)
     IN  /\ db' = d1
         /\ IF current_image_id = None
            THEN /\ annotations' = [annotations EXCEPT
                                      ![i] = [@ EXCEPT !.id = d1.seq, !.class_id = class_id,
                                                       !.class_name = class_name]]
                 /\ selected_annotation_id' = d1.seq
            ELSE /\ annotations' = get_image_annotations(d1, current_image_id)
                 /\ selected_annotation_id' = None
  /\ lastOp' = Op("apply_annotation_changes")
  /\ UNCHANGED <<classes, class_list, current_image_id, current_class_id, history,
                 history_index, otherVars>>

(* The page with the canvas on a project of one bbox: creation, selection,  *)
(* drag and resize with the move tool, the Delete key, undo, the attribute  *)
(* panel, class deletion, batch processing and image switches; the view is  *)
(* not panned and the bboxes stay near where they were.                     *)
MaxShift == 4

(* Every bbox of anns lies within MaxShift pixels of B1, in place and size. *)
ShiftWithin(anns) ==
  \A k \in 1 .. Len(anns) :
    anns[k].type = "bbox" =>
      /\ Abs(anns[k].data.x - B1.x) <= Px(MaxShift)
      /\ Abs(anns[k].data.y - B1.y) <= Px(MaxShift)
      /\ Abs(anns[k].data.width - B1.width) <= Px(MaxShift)
      /\ Abs(anns[k].data.height - B1.height) <= Px(MaxShift)

(* A batch deletion and a batch relabel of the bboxes of class 0 that hold   *)
(* the point (5, 5), over both images.                                      *)
SelectBatchConfigs ==
  {[points |-> <<Point(5, 5)>>, start_idx |-> 0, end_idx |-> NumImages - 1,
    operation |-> "delete", target_classes |-> {0}, source_classes |-> {},
    target_class |-> None],
   [points |-> <<Point(5, 5)>>, start_idx |-> 0, end_idx |-> NumImages - 1,
    operation |-> "modify", target_classes |-> {}, source_classes |-> {0},
    target_class |-> 1]}

NextSelect ==
  \/ \E i \in ImageIds : SelectImage(i)
  \/ set_tool("move")
  \/ \E pos \in DragPointer : current_tool = "move" /\ mousePressEvent(pos)
  \/ \E pos \in DragPointer :
       mouseMoveEvent(pos) /\ image_offset' = image_offset /\ ShiftWithin(annotations')
  \/ mouseReleaseEvent /\ Len(history') <= MaxHist
  \/ DeleteKey /\ Len(history') <= MaxHist
  \/ \E data \in {B1} : db.seq < MaxAnnId /\ AnnotationCreated(data)
  \/ Undo
  \/ \E class_id \in 0 .. MaxClassId : db.seq < MaxAnnId /\ apply_annotation_changes(class_id)
  \/ \E r \in 1 .. MaxClasses : delete_class(r)
  \/ \E config \in SelectBatchConfigs : execute_batch_process(config)

SpecSelect == InitCanvas /\ [][NextSelect]_vars

(* C30: in every reachable state the canvas's selected_annotation_id is     *)
(* None or the id of an annotation of the canvas's current list.            *)
C30_SelectionValid ==
  \/ selected_annotation_id = None
  \/ \E k \in 1 .. Len(annotations) : annotations[k].id = selected_annotation_id

(* A drag or resize of the selected bbox has ended and was stored, and the  *)
(* bbox is still selected.                                                  *)
C30_Witness ==
  /\ selected_annotation_id # None
  /\ lastOp.op = "mouse_release"
  /\ history # <<>> /\ history[Len(history)].action = "modify"
  /\ \E k \in 1 .. Len(annotations) : annotations[k].id = selected_annotation_id
====
